---- MODULE Spec2Model ----
(***************************************************************************)
(* A model of the AI Resume & Interview Analyzer.                          *)
(*                                                                         *)
(*   - the Streamlit workflow of src/streamlit_app/app.py: one script run  *)
(*     is a sequence of steps (file-change check, then the five tabs), the *)
(*     session state is the record session_state;                          *)
(*   - the response parsers of src/backend/service.py, as operators over   *)
(*     texts (sequences of characters and indivisible words).              *)
(***************************************************************************)
EXTENDS Integers, Sequences, FiniteSets, TLC

VARIABLES
    shared_resume_file,            \* st.sidebar.file_uploader, app.py:70
    jd_file,                       \* app.py:72
    conversation_transcript_file,  \* app.py:76
    event,          \* the widget that triggered this script run
    pc,             \* position of the script run
    session_state,  \* st.session_state, app.py:33-64
    before,         \* history variable: session_state before the last step
    signal,         \* st.error / st.warning / st.success shown by the last step
    request,        \* the backend request sent by the last step, or None
    widgets,        \* the widgets the last script run rendered
    computed_from,  \* history variable: the inputs of each stored stage result
    service_call,   \* the service function called since the script run began
    completion,     \* what the completion service answered to that call
    declared,       \* history variable: what that answer was written from
    service_result, \* what the service function returned or raised
    completion_calls, \* calls of the completion service made by that call
    texts_extracted   \* uploads whose text an endpoint extracted for that call

uivars == <<shared_resume_file, jd_file, conversation_transcript_file, event, pc,
            session_state, before, signal, request, widgets, computed_from>>

servicevars == <<service_call, completion, declared, service_result,
                 completion_calls, texts_extracted>>

ServiceUnchanged == UNCHANGED servicevars

(***************************************************************************)
(* Python's None.  Every optional value of the model is a record, so that  *)
(* it can be compared with None.                                           *)
(***************************************************************************)
None == [none |-> TRUE]

\* Bound: the number of follow-up questions asked since the last reset.
MaxTurns == 1

(***************************************************************************)
(* Uploaded files.  The resume uploader accepts pdf and txt, the two others *)
(* txt only (app.py:70-77).                                                *)
(***************************************************************************)
ResumeFiles ==
    { [name |-> "r1.txt", type |-> "text/plain", content |-> "resume one"],
      [name |-> "r2.pdf", type |-> "application/pdf", content |-> "resume two"] }

JdFiles ==
    { [name |-> "j1.txt", type |-> "text/plain", content |-> "jd one"],
      [name |-> "j2.txt", type |-> "text/plain", content |-> "jd two"] }

TranscriptFiles ==
    { [name |-> "t1.txt", type |-> "text/plain", content |-> "transcript one"],
      [name |-> "t2.txt", type |-> "text/plain", content |-> "transcript two"] }

get_file_hash_of_presence(file_uploader_object) ==
    IF file_uploader_object = None THEN None
    ELSE [sha256 |-> "uploaded"]

\* utils.py:5-16: the SHA256 digest of the content, None for no file.  Two
\* contents are taken to have the same digest only if they are equal.
get_file_hash(file_uploader_object) ==
    IF file_uploader_object = None THEN None
    ELSE [sha256 |-> file_uploader_object.content]

(***************************************************************************)
(* utils.py:18-45: the three reset functions, as functions from the old    *)
(* session state to the new one.                                           *)
(***************************************************************************)
clear_all_analysis_state_keeps_ai(s) ==
    [s EXCEPT !.jd_analysis_results = None,
              !.interview_analysis_results = None,
              !.candidate_evaluation_results = None,
              !.conversation_history = <<>>,
              !.job_description_text = "",
              !.candidate_resume_text = ""]

clear_all_analysis_state(s) ==
    [s EXCEPT !.jd_analysis_results = None,
              !.ai_detection_results = None,
              !.interview_analysis_results = None,
              !.candidate_evaluation_results = None,
              !.conversation_history = <<>>,
              !.job_description_text = "",
              !.candidate_resume_text = ""]

clear_jd_dependent_analysis_state_clears_ai(s) ==
    [s EXCEPT !.jd_analysis_results = None,
              !.ai_detection_results = None,
              !.interview_analysis_results = None,
              !.candidate_evaluation_results = None,
              !.conversation_history = <<>>,
              !.job_description_text = ""]

clear_jd_dependent_analysis_state_keeps_jd_text(s) ==
    [s EXCEPT !.jd_analysis_results = None,
              !.interview_analysis_results = None,
              !.candidate_evaluation_results = None,
              !.conversation_history = <<>>]

clear_jd_dependent_analysis_state(s) ==
    [s EXCEPT !.jd_analysis_results = None,
              !.interview_analysis_results = None,
              !.candidate_evaluation_results = None,
              !.conversation_history = <<>>,
              !.job_description_text = ""]

clear_interview_related_state_clears_jd(s) ==
    [s EXCEPT !.jd_analysis_results = None,
              !.interview_analysis_results = None,
              !.candidate_evaluation_results = None,
              !.conversation_history = <<>>]

clear_interview_related_state_keeps_evaluation(s) ==
    [s EXCEPT !.interview_analysis_results = None,
              !.conversation_history = <<>>]

clear_interview_related_state(s) ==
    [s EXCEPT !.interview_analysis_results = None,
              !.candidate_evaluation_results = None,
              !.conversation_history = <<>>]

(***************************************************************************)
(* Texts.  A text is a sequence of characters; a run of characters that no *)
(* pattern of the parsers can match a part of is kept as one indivisible   *)
(* word.  Single characters are the whitespace characters, the digits and  *)
(* the punctuation the patterns name.  LabelWords are the words made of    *)
(* letters, spaces and slashes only that begin and end with a letter (two  *)
(* characters at least); every other word holds a character outside        *)
(* [A-Za-z\s/] and no colon.                                               *)
(***************************************************************************)
Digits == {"0", "1", "2", "3", "4", "5", "6", "7", "8", "9"}

LabelWords ==
    {"Technical Skills Match", "Experience Relevance", "Education Background",
     "Responsibilities Alignment", "Soft Skills/Communication",
     "Location Match", "Minimum Experience Met",
     "STRENGTHS", "Summary", "Overall Score", "Leadership",
     "Yes", "No", "N/A", "Not Specified in JD", "Cannot Determine",
     "Strong Python background", "Ten years of experience"}

SpaceChars == {" ", "\n", "\t"}                        \* \s
LabelClass == SpaceChars \cup {"/"} \cup LabelWords      \* [A-Za-z\s\/]

IsSpace(c) == c \in SpaceChars
IsLetterEnd(c) == c \in LabelWords                     \* ends with [A-Za-z]

Min(S) == CHOOSE x \in S : \A y \in S : x <= y

\* The first position at or after i whose character is not of the class (one
\* past the end if there is none): where a greedy [class]* from i ends.
SkipWhile(t, i, class) ==
    CHOOSE j \in i..(Len(t) + 1) :
        /\ j = Len(t) + 1 \/ t[j] \notin class
        /\ \A k \in i..(j - 1) : t[k] \in class

StartsWith(t, i, lit) ==
    /\ i + Len(lit) - 1 <= Len(t)
    /\ \A k \in 1..Len(lit) : t[i + k - 1] = lit[k]

\* str.strip()
Strip(t) ==
    LET keep == {j \in 1..Len(t) : ~IsSpace(t[j])}
    IN  IF keep = {} THEN <<>>
        ELSE SubSeq(t, Min(keep), CHOOSE x \in keep : \A y \in keep : y <= x)

\* str.split(sep) for a one-character separator
RECURSIVE Split(_, _)
Split(t, sep) ==
    LET at == {j \in 1..Len(t) : t[j] = sep}
    IN  IF at = {} THEN <<t>>
        ELSE <<SubSeq(t, 1, Min(at) - 1)>>
               \o Split(SubSeq(t, Min(at) + 1, Len(t)), sep)

DigitValue(c) ==
    CASE c = "0" -> 0 [] c = "1" -> 1 [] c = "2" -> 2 [] c = "3" -> 3
      [] c = "4" -> 4 [] c = "5" -> 5 [] c = "6" -> 6 [] c = "7" -> 7
      [] c = "8" -> 8 [] c = "9" -> 9

int_first_digit(ds) == DigitValue(ds[1])

\* int() of a digit string
RECURSIVE int(_)
int(ds) ==
    IF ds = <<>> THEN 0
    ELSE 10 * int(SubSeq(ds, 1, Len(ds) - 1)) + DigitValue(ds[Len(ds)])

\* int() raises ValueError on a digit string longer than the interpreter's
\* sys.int_max_str_digits (4300 unless configured otherwise, CPython 3.11 on
\* and the security releases of 3.7 to 3.10).
int_max_str_digits == 4300

int_raises(ds) == Len(ds) > int_max_str_digits

NoMatch == [matched |-> FALSE]

(***************************************************************************)
(* service.py:12-102, score_resume_against_jd: the parsing of the          *)
(* completion text.                                                        *)
(***************************************************************************)
\* The tail `\s*(\d+)/100` of the two score patterns, matched at i.  \s, \d
\* and "/" exclude one another, so the greedy runs are the only way to match.
ScoreTail(t, i) ==
    LET j == SkipWhile(t, i, SpaceChars)
        k == SkipWhile(t, j, Digits)
    IN  IF k > j /\ StartsWith(t, k, <<"/", "1", "0", "0">>)
        THEN [matched |-> TRUE, group |-> SubSeq(t, j, k - 1), end |-> k + 4]
        ELSE NoMatch

\* service.py:63  re.search(r"OVERALL_SCORE:\s*(\d+)/100", content)
overall_score_match(content) ==
    LET at == {i \in 1..Len(content) :
                  /\ StartsWith(content, i, <<"OVERALL_SCORE", ":">>)
                  /\ ScoreTail(content, i + 2).matched}
    IN  IF at = {} THEN NoMatch ELSE ScoreTail(content, Min(at) + 2)

\* `^` under re.MULTILINE
AtLineStart(t, p) == p = 1 \/ t[p - 1] = "\n"

\* service.py:67  ^\s*([A-Za-z\s\/]+[A-Za-z]):\s*(\d+)/100  matched at p.
\* The colon is outside the class of the label, so the label ends where the
\* run of class characters from p ends, on a letter; \s* is greedy, so the
\* label starts at the first character of the run that is no whitespace.
CriteriaMatchAt(t, p) ==
    LET e == SkipWhile(t, p, LabelClass)
        first == SkipWhile(t, p, SpaceChars)
    IN  IF /\ AtLineStart(t, p)
           /\ e > p
           /\ IsLetterEnd(t[e - 1])
           /\ e <= Len(t)
           /\ t[e] = ":"
           /\ ScoreTail(t, e + 1).matched
        THEN [matched |-> TRUE,
              label |-> SubSeq(t, first, e - 1),
              score |-> ScoreTail(t, e + 1).group,
              end |-> ScoreTail(t, e + 1).end]
        ELSE NoMatch

\* The first line start after p (one past the end if there is none).
NextLineStart(t, p) ==
    Min({q \in (p + 1)..(Len(t) + 1) : q = Len(t) + 1 \/ t[q - 1] = "\n"})

\* re.findall(..., content, re.MULTILINE): the matches from p on, in order.
\* The scan resumes where a match ended; no match starts off a line start.
RECURSIVE criteria_lines(_, _)
criteria_lines(content, p) ==
    IF p > Len(content) THEN <<>>
    ELSE LET m == CriteriaMatchAt(content, p)
         IN  IF m.matched
             THEN <<[label |-> m.label, score |-> m.score]>>
                    \o criteria_lines(content, m.end)
             ELSE criteria_lines(content, NextLineStart(content, p))

\* service.py:66-71: a later line with the same label overwrites an earlier one.
criteria_scores_raise(content) ==
    LET lines == criteria_lines(content, 1)
    IN  \E i \in 1..Len(lines) :
            /\ Strip(lines[i].label) # <<"OVERALL_SCORE">>
            /\ int_raises(lines[i].score)

criteria_scores_of(content) ==
    LET lines == criteria_lines(content, 1)
        kept == {i \in 1..Len(lines) :
                    Strip(lines[i].label) # <<"OVERALL_SCORE">>}
        labels == {Strip(lines[i].label) : i \in kept}
        last(l) == CHOOSE i \in kept :
                      /\ Strip(lines[i].label) = l
                      /\ \A j \in kept : Strip(lines[j].label) = l => j <= i
    IN  [l \in labels |-> int(lines[last(l)].score)]

\* service.py:75  HARD_REQUIREMENTS_MATCH:\s*\n((?:.|\n)*?)(?=\nSTRENGTHS:|\Z)
\* matched at i: the greedy \s* gives back down to the last newline of the
\* whitespace run after the colon; the lazy group ends at the first place at
\* or after its start where "\nSTRENGTHS:" follows, or at the end of the text.
HardReqMatchAt(t, i) ==
    LET w == SkipWhile(t, i + 2, SpaceChars)
        newlines == {j \in (i + 2)..(w - 1) : t[j] = "\n"}
        g == (CHOOSE x \in newlines : \A y \in newlines : y <= x) + 1
        stops == {k \in g..(Len(t) + 1) :
                     \/ k = Len(t) + 1
                     \/ StartsWith(t, k, <<"\n", "STRENGTHS", ":">>)}
    IN  IF StartsWith(t, i, <<"HARD_REQUIREMENTS_MATCH", ":">>) /\ newlines # {}
        THEN [matched |-> TRUE, group |-> SubSeq(t, g, Min(stops) - 1)]
        ELSE NoMatch

hard_req_matches(content) ==
    LET at == {i \in 1..Len(content) : HardReqMatchAt(content, i).matched}
    IN  IF at = {} THEN NoMatch ELSE HardReqMatchAt(content, Min(at))

\* service.py:73-84
hard_requirements_of(content) ==
    LET m == hard_req_matches(content)
        lines == IF m.matched THEN Split(Strip(m.group), "\n") ELSE <<>>
        parts(i) == Split(lines[i], ":")
        kept == {i \in 1..Len(lines) : Len(parts(i)) >= 2}
        key(i) == Strip(parts(i)[1])
        \* ":".join(parts[1:]) is the line after its first colon
        value(i) == Strip(SubSeq(lines[i], Len(parts(i)[1]) + 2, Len(lines[i])))
        keys == {key(i) : i \in kept}
        last(k) == CHOOSE i \in kept :
                      key(i) = k /\ \A j \in kept : key(j) = k => j <= i
    IN  [k \in keys |-> value(last(k))]

\* service.py:86-87
\* STRENGTHS:\s*\n((?:-\s*.*\n?)+?)(?=\n[A-Z_]+:|IMPORTANT INSTRUCTIONS:|\[END\]|$)
\* under re.MULTILINE | re.DOTALL, matched at i.  The hyphen is no
\* whitespace, so the whitespace run after the colon ends with the newline
\* the pattern names.  Under DOTALL the greedy .* of the first round of the
\* group runs to the end of the text, where `$` holds: the group is the rest
\* of the text from the first hyphen on.
StrengthsMatchAt(t, i) ==
    LET w == SkipWhile(t, i + 2, SpaceChars)
    IN  IF /\ StartsWith(t, i, <<"STRENGTHS", ":">>)
           /\ w > i + 2
           /\ t[w - 1] = "\n"
           /\ w <= Len(t)
           /\ t[w] = "-"
        THEN [matched |-> TRUE, group |-> SubSeq(t, w, Len(t))]
        ELSE NoMatch

strengths_match(content) ==
    LET at == {i \in 1..Len(content) : StrengthsMatchAt(content, i).matched}
    IN  IF at = {} THEN NoMatch ELSE StrengthsMatchAt(content, Min(at))

StrengthsSentinel == <<"Not explicitly found or format incorrect.">>

\* service.py:88-89
parsed_strengths_strips_bullet(content) ==
    LET m == strengths_match(content)
    IN  IF m.matched THEN Strip(SubSeq(m.group, 2, Len(m.group)))
        ELSE StrengthsSentinel

parsed_strengths(content) ==
    LET m == strengths_match(content)
    IN  IF m.matched THEN Strip(m.group) ELSE StrengthsSentinel

\* What a service function hands to the endpoint: a value, or the
\* HTTPException it raises.
Returned(v) == [raised |-> FALSE, value |-> v]
Raised(code) == [raised |-> TRUE, status_code |-> code]

\* The completion service: it raises, or answers with a message whose
\* content is None or a string, [text |-> t].
CompletionFailed == [ok |-> FALSE]
Completion(content) == [ok |-> TRUE, content |-> content]

\* service.py:51-102.  A failed completion call, a None content (re.search
\* raises TypeError) and a score int() refuses all end in the except clause.
score_resume_against_jd(answer) ==
    IF ~answer.ok \/ answer.content = None
    THEN Raised(500)
    ELSE LET content == answer.content.text
             m == overall_score_match(content)
         IN  IF (m.matched /\ int_raises(m.group)) \/ criteria_scores_raise(content)
             THEN Raised(500)
             ELSE
             Returned([analysis_raw |-> content,
                       overall_score |-> IF m.matched THEN int(m.group) ELSE 0,
                       criteria_scores |-> criteria_scores_of(content),
                       hard_requirements_match |-> hard_requirements_of(content),
                       strengths_text |-> parsed_strengths(content)])

(***************************************************************************)
(* The answers of the completion service to the scoring prompt             *)
(* (service.py:15-50).  The prompt mandates four sections:                 *)
(*     OVERALL_SCORE: [score]/100                                          *)
(*     CRITERIA_SCORES: and five lines  <label>: [score]/100               *)
(*     HARD_REQUIREMENTS_MATCH: and four lines  <requirement>: <value>     *)
(*     STRENGTHS: and bullet lines  - <strength>                           *)
(* with blank lines between them.  The service may answer anything; the    *)
(* answers of the model are the texts of the grammar, with scores up to    *)
(* MaxScore, and texts whose sections depart from it.                      *)
(***************************************************************************)
\* Bound: the largest score an answer of the grammar declares.
MaxScore == 100

RECURSIVE Cat(_)
Cat(ts) == IF ts = <<>> THEN <<>> ELSE Head(ts) \o Cat(Tail(ts))

DigitChar(d) == CHOOSE c \in Digits : DigitValue(c) = d

\* str() of a natural number
RECURSIVE Decimal(_)
Decimal(n) ==
    IF n < 10 THEN <<DigitChar(n)>>
    ELSE Decimal(n \div 10) \o <<DigitChar(n % 10)>>

ScoreLine(label, n) ==
    <<label, ":", " ">> \o Decimal(n) \o <<"/", "1", "0", "0", "\n">>

CriteriaLabels ==
    <<"Technical Skills Match", "Experience Relevance", "Education Background",
      "Responsibilities Alignment", "Soft Skills/Communication">>

HardRequirementKeys ==
    <<"Location Match", "Full-time Availability", "Minimum Experience Met",
      "Other Specific Requirements Met (e.g., Certifications, Specific Tools, etc.)">>

OverallSection(n) == ScoreLine("OVERALL_SCORE", n) \o <<"\n">>

CriteriaSection(row) ==
    <<"CRITERIA_SCORES", ":", "\n">>
      \o Cat([i \in 1..5 |-> ScoreLine(CriteriaLabels[i], row[i])]) \o <<"\n">>

HardRequirementsSection(values) ==
    <<"HARD_REQUIREMENTS_MATCH", ":", "\n">>
      \o Cat([i \in 1..4 |-> <<HardRequirementKeys[i], ":", " ", values[i], "\n">>])
      \o <<"\n">>

\* The last section: the answer ends with its last bullet line.
StrengthsSection(bullets) ==
    LET lines == Cat([i \in 1..Len(bullets) |-> <<"-", " ", bullets[i], "\n">>])
    IN  <<"STRENGTHS", ":", "\n">> \o SubSeq(lines, 1, Len(lines) - 1)

DefaultRow == <<80, 70, 60, 50, 40>>

GrammarHardRequirements ==
    {<<"Yes", "No", "Cannot Determine", "N/A">>,
     <<"Not Specified in JD", "Yes", "Yes", "Yes">>}

GrammarStrengths ==
    {<<"Strong Python background">>,
     <<"Strong Python background", "Ten years of experience">>}

\* The scores the answers of the grammar declare: every overall score with
\* the default criteria row, and every score at every place of the row.
DeclaredScores ==
    {[overall |-> n, criteria |-> DefaultRow] : n \in 0..MaxScore}
      \cup {[overall |-> 87,
             criteria |-> [i \in 1..5 |-> IF i = k THEN n ELSE 10 * i]] :
               k \in 1..5, n \in 0..MaxScore}

GrammarText(scores, values, bullets) ==
    OverallSection(scores.overall) \o CriteriaSection(scores.criteria)
      \o HardRequirementsSection(values) \o StrengthsSection(bullets)

\* An answer and what it was written from.
Answer(text, scores) ==
    [completion |-> Completion([text |-> text]), declared |-> scores]

GrammarAnswers ==
    {Answer(GrammarText(sc, <<"Yes", "No", "Cannot Determine", "N/A">>,
                        <<"Strong Python background">>), sc) :
        sc \in DeclaredScores}
      \cup {Answer(GrammarText([overall |-> 87, criteria |-> DefaultRow], v, b)
                     \o trail,
                   [overall |-> 87, criteria |-> DefaultRow]) :
              v \in GrammarHardRequirements, b \in GrammarStrengths,
              trail \in {<<>>, <<"\n">>}}

\* Sections as an answer may hold them: absent, as the grammar has them,
\* or departing from it.
OverallVariants ==
    {<<>>,
     OverallSection(87),
     <<"OVERALL_SCORE", ":", " ", "N/A", "\n", "\n">>,
     <<"OVERALL_SCORE", ":", "\n", "8", "7", "/", "1", "0", "0", "\n", "\n">>,
     <<"OVERALL_SCORE", ":", " ", "8", "7", "/", "1", "0", "\n", "\n">>,
     <<"OVERALL_SCORE", ":", " ", "/", "1", "0", "0", "\n", "\n">>,
     <<"OVERALL_SCORE", " ", ":", " ", "8", "7", "/", "1", "0", "0", "\n", "\n">>,
     ScoreLine("Overall Score", 87) \o <<"\n">>,
     ScoreLine("OVERALL_SCORE", 8) \o OverallSection(87)}

CriteriaVariants ==
    {<<>>,
     CriteriaSection(DefaultRow),
     <<"CRITERIA_SCORES", ":", "\n", "\n">>,
     <<"CRITERIA_SCORES", ":", "\n",
       "Leadership", " ", ":", " ", "5", "/", "1", "0", "0", "\n", "\n">>,
     <<"CRITERIA_SCORES", ":", "\n", " ", " "
       >> \o ScoreLine("Leadership", 5) \o <<"\n">>,
     ScoreLine("Leadership", 5) \o ScoreLine("Leadership", 7) \o <<"\n">>,
     <<"-", " ">> \o ScoreLine("Leadership", 5) \o <<"\n">>,
     <<"Summary", "\n">> \o ScoreLine("Leadership", 5) \o <<"\n">>,
     <<"Leadership", ":", " ", "Yes", "\n", "\n">>,
     <<"Leadership", ":", "\n", "5", "/", "1", "0", "0", "\n", "\n">>}

HardRequirementsVariants ==
    {<<>>,
     HardRequirementsSection(<<"Yes", "No", "Cannot Determine", "N/A">>),
     <<"HARD_REQUIREMENTS_MATCH", ":", " ",
       "Location Match", ":", " ", "Yes", "\n", "\n">>,
     <<"HARD_REQUIREMENTS_MATCH", ":", "\n">>,
     <<"HARD_REQUIREMENTS_MATCH", ":", "\n",
       "Location Match", " ", "Yes", "\n", "\n">>,
     <<"HARD_REQUIREMENTS_MATCH", ":", "\n",
       "Location Match", ":", " ", "Yes", ":", " ", "Summary", "\n", "\n">>,
     <<"HARD_REQUIREMENTS_MATCH", ":", "\n",
       "Location Match", ":", " ", "Yes", "\n",
       "Location Match", ":", " ", "No", "\n", "\n">>,
     <<"HARD_REQUIREMENTS_MATCH", ":", " ", "\n", " ", "\n", " ",
       "Location Match", " ", ":", "No", " ", "\n", "\n">>}

StrengthsVariants ==
    {<<>>,
     StrengthsSection(<<"Strong Python background">>),
     StrengthsSection(<<"Strong Python background", "Ten years of experience">>)
       \o <<"\n", "\n">>,
     <<"STRENGTHS", ":", "\n", "Summary", "\n", "-", " ", "Leadership">>,
     <<"STRENGTHS", ":", "\n", " ", " ", "-", " ", "Leadership">>,
     <<"STRENGTHS", ":", " ", "\n", "\n", "-", " ", "Leadership", "\n">>,
     <<"STRENGTHS", ":", "\n", "-", " ", "Leadership", "\n", "\n",
       "Summary", ":", " ", "Yes", "\n">>,
     <<"STRENGTHS", ":", " ", "-", " ", "Leadership">>}

\* The text is of the grammar when its four sections are.
SectionsAnswer(o, c, h, st) ==
    Answer(o \o c \o h \o st,
           IF /\ o = OverallSection(87)
              /\ c = CriteriaSection(DefaultRow)
              /\ h = HardRequirementsSection(<<"Yes", "No", "Cannot Determine", "N/A">>)
              /\ st = StrengthsSection(<<"Strong Python background">>)
           THEN [overall |-> 87, criteria |-> DefaultRow]
           ELSE None)

SectionAnswers ==
    {SectionsAnswer(o, c, h, st) :
        o \in OverallVariants, c \in CriteriaVariants,
        h \in HardRequirementsVariants, st \in StrengthsVariants}

\* The sections in another order, and scores int() refuses.
OtherAnswers ==
    {Answer(StrengthsSection(<<"Strong Python background">>) \o <<"\n", "\n">>
              \o HardRequirementsSection(<<"Yes", "No", "Cannot Determine", "N/A">>)
              \o CriteriaSection(DefaultRow) \o OverallSection(87), None),
     Answer(<<"OVERALL_SCORE", ":", " ">>
              \o [i \in 1..(int_max_str_digits + 1) |-> "9"]
              \o <<"/", "1", "0", "0", "\n">>, None),
     Answer(OverallSection(87) \o <<"Leadership", ":", " ">>
              \o [i \in 1..(int_max_str_digits + 1) |-> "0"]
              \o <<"/", "1", "0", "0">>, None)}

\* Scores beyond the scale of 100 the prompt states (service.py:24-30, 43).
ScoresBeyondScale == {101, 150, 1000}

BeyondScaleAnswers ==
    {Answer(GrammarText([overall |-> n,
                         criteria |-> [i \in 1..5 |-> IF i = 1 THEN m ELSE 10 * i]],
                        <<"Yes", "No", "Cannot Determine", "N/A">>,
                        <<"Strong Python background">>), None) :
        n \in {87} \cup ScoresBeyondScale, m \in {80} \cup ScoresBeyondScale}

ScoringAnswers ==
    GrammarAnswers \cup SectionAnswers \cup OtherAnswers \cup BeyondScaleAnswers
      \cup {[completion |-> CompletionFailed, declared |-> None],
            [completion |-> Completion(None), declared |-> None]}

(***************************************************************************)
(* service.py:151-177, _parse_generated_questions.  The words of a         *)
(* question text begin and end with a character that is neither            *)
(* whitespace nor a digit, do not begin with `.` or `)` and hold no        *)
(* newline; the digits, `.`, `)` and the whitespace characters are single  *)
(* characters.                                                             *)
(***************************************************************************)
NumberMarks == {".", ")"}                              \* [\.\)]

\* `\s*\d+[\.\)]` matched at i: the position after the match, 0 if there is
\* none.  \s, \d and the marks exclude one another.
NumberedAt(t, i) ==
    LET j == SkipWhile(t, i, SpaceChars)
        k == SkipWhile(t, j, Digits)
    IN  IF k > j /\ k <= Len(t) /\ t[k] \in NumberMarks THEN k + 1 ELSE 0

\* The lookahead `(?=\n\s*\d+[\.\)]|\n\n|\Z)` at e.
QuestionEndsAt(t, e) ==
    \/ e = Len(t) + 1
    \/ /\ e <= Len(t)
       /\ t[e] = "\n"
       /\ \/ NumberedAt(t, e + 1) # 0
          \/ e + 1 <= Len(t) /\ t[e + 1] = "\n"

\* service.py:158, the pattern matched at p under re.DOTALL | re.MULTILINE.
\* The greedy \s* after the mark takes every whitespace character, newlines
\* included; the lazy group then ends at the first position of the lookahead.
QuestionMatchAt(t, p) ==
    LET a == NumberedAt(t, p)
        s == SkipWhile(t, a, SpaceChars)
        e == Min({x \in s..(Len(t) + 1) : QuestionEndsAt(t, x)})
    IN  IF AtLineStart(t, p) /\ a # 0
        THEN [matched |-> TRUE, group |-> SubSeq(t, s, e - 1), end |-> e]
        ELSE NoMatch

\* re.finditer from p on: the groups of the successive matches.
RECURSIVE question_matches(_, _)
question_matches(t, p) ==
    LET at == {q \in p..Len(t) : QuestionMatchAt(t, q).matched}
    IN  IF at = {} THEN <<>>
        ELSE LET m == QuestionMatchAt(t, Min(at))
             IN  <<m.group>> \o question_matches(t, m.end)

NonEmpty(q) == q # <<>>

\* service.py:160-164
parsed_matches(question_text) ==
    LET ms == question_matches(question_text, 1)
    IN  SelectSeq([i \in 1..Len(ms) |-> Strip(ms[i])], NonEmpty)

\* service.py:170-174, one line of the fallback: the numbering removed from a
\* numbered line that has text after it, any other line as it is.
fallback_question(line) ==
    LET l == Strip(line)
        k == SkipWhile(l, 1, Digits)
    IN  IF k > 1 /\ k < Len(l) /\ l[k] \in NumberMarks
        THEN Strip(SubSeq(l, k + 1, Len(l)))
        ELSE l

\* service.py:166-175
fallback_questions(question_text) ==
    LET lines == Split(question_text, "\n")
    IN  SelectSeq([i \in 1..Len(lines) |-> fallback_question(lines[i])], NonEmpty)

_parse_generated_questions_by_lines(question_text) ==
    fallback_questions(question_text)

_parse_generated_questions_first_only(question_text) ==
    LET ms == parsed_matches(question_text)
    IN  IF ms = <<>> THEN fallback_questions(question_text) ELSE <<ms[1]>>

\* service.py:151-177
_parse_generated_questions(question_text) ==
    LET ms == parsed_matches(question_text)
    IN  IF ms = <<>> THEN fallback_questions(question_text) ELSE ms

\* "\n".join(parts)
RECURSIVE JoinLines(_)
JoinLines(parts) ==
    IF parts = <<>> THEN <<>>
    ELSE IF Len(parts) = 1 THEN parts[1]
    ELSE parts[1] \o <<"\n">> \o JoinLines(Tail(parts))

\* service.py:190  "\n".join([f"{i + 1}. {q}" for i, q in enumerate(...)])
ai_questions_formatted_for_prompt(ai_generated_questions_list) ==
    JoinLines([i \in 1..Len(ai_generated_questions_list) |->
                  Decimal(i) \o <<".", " ">> \o ai_generated_questions_list[i]])

(***************************************************************************)
(* service.py:180-260, analyze_interview_questions.  The words of its      *)
(* answers: `COVERED_GENERATED_QUESTIONS`, `INTERVIEWER_OWN_QUESTIONS`,    *)
(* `UN` (UNCOVERED_GENERATED_QUESTIONS is `UN` followed by                 *)
(* `COVERED_GENERATED_QUESTIONS`, which re.search finds inside it), and    *)
(* words that hold none of these, no newline, and neither begin nor end    *)
(* with whitespace or a hyphen.                                            *)
(***************************************************************************)
COVERED_GENERATED_QUESTIONS == <<"COVERED_GENERATED_QUESTIONS">>
UNCOVERED_GENERATED_QUESTIONS == <<"UN", "COVERED_GENERATED_QUESTIONS">>
INTERVIEWER_OWN_QUESTIONS == <<"INTERVIEWER_OWN_QUESTIONS">>

\* service.py:236, the pattern matched at i under re.MULTILINE | re.DOTALL:
\* `<name>:\s*\n` must end right before a hyphen, so it takes the whole run
\* of whitespace after the colon and that run ends with a newline.  The group
\* `(?:-\s*.*\n?)+?` is tried with one repetition first, in which the greedy
\* `.*` (the dot matches newlines) runs to the end of the text, where the `$`
\* of the lookahead holds: the group is the rest of the text.
SectionMatchAt(section_name, t, i) ==
    LET a == i + Len(section_name) + 1
        j == SkipWhile(t, a, SpaceChars)
    IN  IF /\ StartsWith(t, i, section_name \o <<":">>)
           /\ j > a
           /\ t[j - 1] = "\n"
           /\ j <= Len(t)
           /\ t[j] = "-"
        THEN [matched |-> TRUE, group |-> SubSeq(t, j, Len(t))]
        ELSE NoMatch

\* service.py:241  line.strip().startswith('- ')
IsBulletLine(line) == StartsWith(Strip(line), 1, <<"-", " ">>)

\* service.py:234-243.  line[2:] drops two characters of the line as it is,
\* not of the stripped line; in a line that passes the test they are
\* whitespace characters or the marker.
parse_section(section_name, text_content) ==
    LET at == {i \in 1..Len(text_content) :
                  SectionMatchAt(section_name, text_content, i).matched}
    IN  IF at = {} THEN <<>>
        ELSE LET m == SectionMatchAt(section_name, text_content, Min(at))
                 lines == SelectSeq(Split(Strip(m.group), "\n"), IsBulletLine)
             IN  [k \in 1..Len(lines) |->
                     Strip(SubSeq(lines[k], 3, Len(lines[k])))]

\* service.py:180-260.  A failed completion call and a None content
\* (None.strip() raises AttributeError) end in the except clause.
analyze_interview_questions(ai_generated_questions_text, answer) ==
    IF ~answer.ok \/ answer.content = None
    THEN Raised(500)
    ELSE LET content == Strip(answer.content.text)
             ai_generated_questions_list ==
                 _parse_generated_questions(ai_generated_questions_text)
         IN  Returned(
               [analysis_raw |-> content,
                covered_generated_questions |->
                    parse_section(COVERED_GENERATED_QUESTIONS, content),
                uncovered_generated_questions |->
                    parse_section(UNCOVERED_GENERATED_QUESTIONS, content),
                interviewer_own_questions |->
                    parse_section(INTERVIEWER_OWN_QUESTIONS, content),
                original_ai_generated_count |->
                    Len(ai_generated_questions_list)])

(***************************************************************************)
(* The answers of the completion service to the coverage prompt,           *)
(* service.py:192-221: texts in the output format the prompt asks for,     *)
(* written from three lists of questions, and texts that leave the format. *)
(***************************************************************************)
\* `- <question>` lines
RECURSIVE BulletLines(_)
BulletLines(questions) ==
    IF questions = <<>> THEN <<>>
    ELSE <<"-", " ">> \o Head(questions) \o <<"\n">> \o BulletLines(Tail(questions))

CoverageSection(section_name, questions) ==
    section_name \o <<":", "\n">> \o BulletLines(questions)

\* The three sections, `gap` between a section and the next header.
CoverageText(covered, uncovered, own, gap) ==
    CoverageSection(COVERED_GENERATED_QUESTIONS, covered) \o gap
      \o CoverageSection(UNCOVERED_GENERATED_QUESTIONS, uncovered) \o gap
      \o CoverageSection(INTERVIEWER_OWN_QUESTIONS, own)

GeneratedQuestionLists ==
    {<<>>, <<<<"Q1?">>>>, <<<<"Q2?">>>>, <<<<"Q1?">>, <<"Q2?">>>>,
     <<<<"Q2?">>, <<"Q1?">>>>}

OwnQuestionLists ==
    {<<>>, <<<<"Own question?">>>>, <<<<"Own question?">>, <<"Another one?">>>>}

CoverageGrammarAnswers ==
    {[completion |-> Completion([text |-> CoverageText(c, u, o, gap)]),
      declared |-> [covered |-> c, uncovered |-> u, own |-> o]] :
        c \in GeneratedQuestionLists, u \in GeneratedQuestionLists,
        o \in OwnQuestionLists, gap \in {<<>>, <<"\n">>}}

OtherCoverageTexts ==
    {<<>>,
     <<"No questions were asked.">>,
     <<"COVERED_GENERATED_QUESTIONS", ":", " ", "-", " ", "Q1?">>,
     <<"COVERED_GENERATED_QUESTIONS", ":", "\n", " ", " ", "-", " ", "Q1?",
       "\n", " ", " ", "-", " ", "Q2?">>,
     <<"COVERED_GENERATED_QUESTIONS", ":", "\n", "-", "Q1?", "\n", "-", "\t",
       "Q2?">>,
     <<"COVERED_GENERATED_QUESTIONS", ":", "\n", "-", " ", "None", "\n", "\n",
       "INTERVIEWER_OWN_QUESTIONS", ":", "\n", "-", " ", "Own question?">>,
     <<"INTERVIEWER_OWN_QUESTIONS", ":", "\n", "\n", "-", " ", "Own question?",
       "\n", "Another one?", "\n", "\t", "-", " ", "Q1?", " ">>,
     <<"UN", "COVERED_GENERATED_QUESTIONS", ":", " ", "\n", "-", " ", "-",
       " ", "Q2?">>}

CoverageAnswers ==
    CoverageGrammarAnswers
      \cup {[completion |-> Completion([text |-> t]), declared |-> None] :
               t \in OtherCoverageTexts}
      \cup {[completion |-> CompletionFailed, declared |-> None],
            [completion |-> Completion(None), declared |-> None]}

(***************************************************************************)
(* service.py:263-378, evaluate_candidate_responses_holistically.  The     *)
(* words of its answers: the field names `Question`, `Response Summary`,   *)
(* `Score`, `Rationale`, `Overall Score`, `Overall Summary`, the rulers    *)
(* `---`, `--- EVALUATION START ---`, `--- OVERALL INTERVIEW PERFORMANCE   *)
(* ---`, `--- EVALUATION END ---`, and words that hold none of these.      *)
(***************************************************************************)
\* `$` without re.MULTILINE: the end of the text, or the newline that ends it.
AtEnd(t, k) == k = Len(t) + 1 \/ (k = Len(t) /\ t[k] = "\n")

\* service.py:345  re.search(r"Overall Score:\s*(\d+)/100", content)
interview_score_match(content) ==
    LET at == {i \in 1..Len(content) :
                  /\ StartsWith(content, i, <<"Overall Score", ":">>)
                  /\ ScoreTail(content, i + 2).matched}
    IN  IF at = {} THEN NoMatch ELSE ScoreTail(content, Min(at) + 2)

\* service.py:346  Overall Summary:\s*(.*?)(?=\n--- EVALUATION END ---|$)
\* under re.DOTALL: the lazy group ends at the first place where the ruler
\* follows a newline, or at the end of the text.
overall_summary_match(content) ==
    LET at == {i \in 1..Len(content) :
                  StartsWith(content, i, <<"Overall Summary", ":">>)}
        j == SkipWhile(content, Min(at) + 2, SpaceChars)
        stops == {k \in j..(Len(content) + 1) :
                     \/ StartsWith(content, k, <<"\n", "--- EVALUATION END ---">>)
                     \/ AtEnd(content, k)}
    IN  IF at = {} THEN NoMatch
        ELSE [matched |-> TRUE, group |-> SubSeq(content, j, Min(stops) - 1)]

\* service.py:353-355, the pattern
\*   Question: (.*?)\nResponse Summary: (.*?)\nScore: (\d+)/10\nRationale: (.*?)
\*   (?=\n---\n|--- OVERALL INTERVIEW PERFORMANCE ---|$)
\* under re.DOTALL, matched at i.  Every group but the digits is lazy: the
\* question ends at the first `\nResponse Summary: ` after which the rest
\* can match, the summary at the first `\nScore: <digits>/10\nRationale: `.
ScoreLineAt(t, b) ==
    /\ StartsWith(t, b, <<"\n", "Score", ":", " ">>)
    /\ LET d == SkipWhile(t, b + 4, Digits)
       IN  /\ d > b + 4
           /\ StartsWith(t, d, <<"/", "1", "0", "\n", "Rationale", ":", " ">>)

BlockMatchAt(t, i) ==
    LET summaries == {a \in (i + 3)..Len(t) :
                         /\ StartsWith(t, a, <<"\n", "Response Summary", ":", " ">>)
                         /\ \E b \in (a + 4)..Len(t) : ScoreLineAt(t, b)}
        a == Min(summaries)
        b == Min({x \in (a + 4)..Len(t) : ScoreLineAt(t, x)})
        d == SkipWhile(t, b + 4, Digits)
        c == Min({k \in (d + 7)..(Len(t) + 1) :
                     \/ StartsWith(t, k, <<"\n", "---", "\n">>)
                     \/ StartsWith(t, k, <<"--- OVERALL INTERVIEW PERFORMANCE ---">>)
                     \/ AtEnd(t, k)})
    IN  IF StartsWith(t, i, <<"Question", ":", " ">>) /\ summaries # {}
        THEN [matched |-> TRUE,
              question |-> SubSeq(t, i + 3, a - 1),
              response_summary |-> SubSeq(t, a + 4, b - 1),
              score |-> SubSeq(t, b + 4, d - 1),
              rationale |-> SubSeq(t, d + 7, c - 1),
              end |-> c]
        ELSE NoMatch

\* re.findall: the matches from p on, in order.
RECURSIVE individual_blocks(_, _)
individual_blocks(content, p) ==
    LET at == {i \in p..Len(content) : BlockMatchAt(content, i).matched}
        m == BlockMatchAt(content, Min(at))
    IN  IF at = {} THEN <<>>
        ELSE <<m>> \o individual_blocks(content, m.end)

\* service.py:275-280
EvaluationSentinel ==
    [individual_evaluations |-> <<>>,
     overall_interview_score |-> 0,
     overall_interview_summary |-> <<"No questions were asked or evaluated.">>]

\* service.py:339-378: the answer parsed.  A failed completion call, a None
\* content (None has no strip()) and a score int() refuses end in the except
\* clause.
parse_evaluation(answer) ==
    IF ~answer.ok \/ answer.content = None
    THEN Raised(500)
    ELSE LET content == Strip(answer.content.text)
             sm == interview_score_match(content)
             um == overall_summary_match(content)
             blocks == individual_blocks(content, 1)
         IN  IF \/ sm.matched /\ int_raises(sm.group)
                \/ \E k \in 1..Len(blocks) : int_raises(blocks[k].score)
             THEN Raised(500)
             ELSE Returned(
               [individual_evaluations |->
                   [k \in 1..Len(blocks) |->
                       [question |-> Strip(blocks[k].question),
                        response_summary |-> Strip(blocks[k].response_summary),
                        score |-> int(blocks[k].score),
                        rationale |-> Strip(blocks[k].rationale)]],
                overall_interview_score |->
                   IF sm.matched THEN int(sm.group) ELSE 0,
                overall_interview_summary |->
                   IF um.matched THEN Strip(um.group) ELSE <<"N/A">>])

evaluate_candidate_responses_holistically_without_sentinel(all_questions_asked, answer) ==
    [result |-> parse_evaluation(answer), completion_calls |-> 1]

\* service.py:263-378: what the function returns or raises, and the calls of
\* the completion service it makes.
evaluate_candidate_responses_holistically(all_questions_asked, answer) ==
    IF all_questions_asked = <<>>
    THEN [result |-> Returned(EvaluationSentinel), completion_calls |-> 0]
    ELSE [result |-> parse_evaluation(answer), completion_calls |-> 1]

(***************************************************************************)
(* The answers of the completion service to the evaluation prompt          *)
(* (service.py:284-327): for every question a block                        *)
(*     Question: .. / Response Summary: .. / Score: X/10 / Rationale: ..   *)
(* the blocks separated by `---` lines, then the overall score and summary.*)
(***************************************************************************)
EvaluationBlock(question, score) ==
    <<"Question", ":", " ", question, "\n",
      "Response Summary", ":", " ", "A clear answer", "\n",
      "Score", ":", " ">> \o Decimal(score) \o <<"/", "1", "0", "\n",
      "Rationale", ":", " ", "Relevant and specific", "\n">>

EvaluationGrammarText(questions, score, overall) ==
    <<"--- EVALUATION START ---", "\n">>
      \o Cat([i \in 1..Len(questions) |->
                 EvaluationBlock(questions[i], score)
                   \o (IF i < Len(questions) THEN <<"---", "\n">> ELSE <<>>)])
      \o <<"--- OVERALL INTERVIEW PERFORMANCE ---", "\n">>
      \o ScoreLine("Overall Score", overall)
      \o <<"Overall Summary", ":", " ", "Solid", "\n",
           "--- EVALUATION END ---">>

\* What the completion service may answer when asked about `questions`: the
\* text of the grammar, a text that states no score, a text without blocks,
\* None, or a failure.
EvaluationAnswers(questions) ==
    {Completion([text |-> EvaluationGrammarText(questions, 7, 70)]),
     Completion([text |-> <<"Overall Summary", ":", " ", "Solid">>]),
     Completion([text |-> <<"No clear response found">>]),
     Completion(None),
     CompletionFailed}

\* Answers in the format of the prompt whose scores lie on the scales the
\* prompt states (out of 10, out of 100) or beyond them.
EvaluationScoredAnswers(questions) ==
    {Completion([text |-> EvaluationGrammarText(questions, score, overall)]) :
        score \in {0, 7, 10, 11, 99}, overall \in {0, 70, 100, 101, 250}}

(***************************************************************************)
(* service.py:381-493, detect_ai_resume: the parsing of the first          *)
(* completion text, the optional explanation call, and the prompts sent.   *)
(***************************************************************************)
\* Where the line that holds position g ends: `.` matches all but "\n".
LineEnd(t, g) ==
    Min({j \in g..(Len(t) + 1) : j = Len(t) + 1 \/ t[j] = "\n"})

\* service.py:437  re.search(r"Classification: (.*)", analysis_content)
classification_match(analysis_content) ==
    LET at == {i \in 1..Len(analysis_content) :
                  StartsWith(analysis_content, i, <<"Classification", ":", " ">>)}
        g == Min(at) + 3
    IN  IF at = {} THEN NoMatch
        ELSE [matched |-> TRUE,
              group |-> SubSeq(analysis_content, g, LineEnd(analysis_content, g) - 1)]

\* service.py:438-442  re.search(label + r": (\d+)", analysis_content)
detection_score_match(label, analysis_content) ==
    LET at == {i \in 1..Len(analysis_content) :
                  /\ StartsWith(analysis_content, i, <<label, ":", " ">>)
                  /\ i + 3 <= Len(analysis_content)
                  /\ analysis_content[i + 3] \in Digits}
        g == Min(at) + 3
    IN  IF at = {} THEN NoMatch
        ELSE [matched |-> TRUE,
              group |-> SubSeq(analysis_content, g,
                               SkipWhile(analysis_content, g, Digits) - 1)]

\* A value of the type Union[int, str] of models.py:32-36.
IntValue(n) == [int |-> n]
StrValue(s) == [str |-> s]

\* service.py:444
classification_val(analysis_content) ==
    LET m == classification_match(analysis_content)
    IN  IF m.matched THEN Strip(m.group) ELSE <<"N/A">>

\* service.py:445-449
detection_score_val(label, analysis_content) ==
    LET m == detection_score_match(label, analysis_content)
    IN  IF m.matched THEN IntValue(int(Strip(m.group))) ELSE StrValue("N/A")

\* service.py:451-458
response_data(analysis_content) ==
    [classification |-> classification_val(analysis_content),
     overall_confidence_score |->
         detection_score_val("Overall Confidence Score", analysis_content),
     formatting_consistency_score |->
         detection_score_val("Formatting Consistency Score", analysis_content),
     language_use_score |->
         detection_score_val("Language Use Score", analysis_content),
     detail_depth_score |->
         detection_score_val("Detail Depth Score", analysis_content),
     error_detection_score |->
         detection_score_val("Error Detection Score", analysis_content)]

\* message.content is missing or the empty string (service.py:431-435, 483)
NoContent(answer) == answer.content = None \/ answer.content.text = <<>>

\* service.py:396-417 and 461-473: what the two prompts are made of.
initial_prompt(resume_text) == [prompt |-> "initial", resume_text |-> resume_text]
explanation_prompt(data, resume_text) ==
    [prompt |-> "explanation", analysis |-> data, resume_text |-> resume_text]

\* service.py:483-486
explanation_of(second) ==
    IF NoContent(second) THEN <<"Could not generate detailed explanation.">>
    ELSE second.content.text

Detected(result, prompts) == [result |-> result, prompts |-> prompts]

detect_ai_resume_keeps_scores_when_explanation_fails(resume_text, include_explanation, first, second) ==
    IF resume_text = "" THEN Detected(Raised(400), <<>>)
    ELSE IF ~first.ok \/ NoContent(first)
    THEN Detected(Raised(500), <<initial_prompt(resume_text)>>)
    ELSE LET data == response_data(first.content.text)
         IN  IF ~include_explanation
             THEN Detected(Returned([status |-> "success", data |-> data]),
                           <<initial_prompt(resume_text)>>)
             ELSE IF ~second.ok
             THEN Detected(Returned([status |-> "success", data |-> data]),
                           <<initial_prompt(resume_text),
                             explanation_prompt(data, resume_text)>>)
             ELSE Detected(
                    Returned([status |-> "success",
                              data |-> data @@
                                  [explanation |-> explanation_of(second)]]),
                    <<initial_prompt(resume_text),
                      explanation_prompt(data, resume_text)>>)

\* service.py:381-493 with a client: the result or the HTTPException, and
\* the prompts sent to the completion service, in order.  `first` and
\* `second` are the answers of the service to the two calls.
detect_ai_resume(resume_text, include_explanation, first, second) ==
    IF resume_text = "" THEN Detected(Raised(400), <<>>)
    ELSE IF ~first.ok \/ NoContent(first)
    THEN Detected(Raised(500), <<initial_prompt(resume_text)>>)
    ELSE LET data == response_data(first.content.text)
         IN  IF ~include_explanation
             THEN Detected(Returned([status |-> "success", data |-> data]),
                           <<initial_prompt(resume_text)>>)
             ELSE IF ~second.ok
             THEN Detected(Raised(500),
                           <<initial_prompt(resume_text),
                             explanation_prompt(data, resume_text)>>)
             ELSE Detected(
                    Returned([status |-> "success",
                              data |-> data @@
                                  [explanation |-> explanation_of(second)]]),
                    <<initial_prompt(resume_text),
                      explanation_prompt(data, resume_text)>>)

(***************************************************************************)
(* The answers of the completion service to the detection prompt           *)
(* (service.py:409-414): six lines `<label>: <value>`, some of them absent *)
(* or with a value other than the prompt asks for.                         *)
(***************************************************************************)
DetectionLine(label, value) == <<label, ":", " ">> \o value \o <<"\n">>

ClassificationLines ==
    { DetectionLine("Classification", <<"AI-Generated">>),
      DetectionLine("Classification", <<"Human-Written">>),
      DetectionLine("Classification", <<"Human-Written", " ">>),
      DetectionLine("Classification", <<"Likely AI-Generated">>),
      DetectionLine("Classification", <<>>),
      <<"Classification", ":", "AI-Generated", "\n">>,
      <<>> }

DetectionScoreLines(label) ==
    { DetectionLine(label, Decimal(n)) : n \in {0, 85, 100, 150} } \cup
    { DetectionLine(label, Decimal(85) \o <<"%">>),
      DetectionLine(label, <<"high">>),
      <<>> }

DetectionTexts ==
    { c \o o \o f \o DetectionLine("Language Use Score", Decimal(70))
        \o DetectionLine("Detail Depth Score", Decimal(65)) \o e :
        c \in ClassificationLines,
        o \in DetectionScoreLines("Overall Confidence Score"),
        f \in { DetectionLine("Formatting Consistency Score", Decimal(90)), <<>> },
        e \in { DetectionLine("Error Detection Score", Decimal(100)),
                DetectionLine("Error Detection Score", Decimal(1000)) } }

DetectionAnswers ==
    { Completion([text |-> t]) : t \in DetectionTexts } \cup
    { Completion([text |-> <<"I cannot analyze this resume.">>]),
      Completion([text |-> <<>>]), Completion(None), CompletionFailed }

ExplanationAnswers ==
    { Completion([text |-> <<"The resume reads as written by a person.">>]),
      Completion([text |-> <<>>]), Completion(None), CompletionFailed }

(***************************************************************************)
(* Backend responses as the Streamlit client sees them (api_client.py).    *)
(* _handle_api_response returns the JSON body or raises one of four        *)
(* exceptions; requests.post may raise the connection and timeout ones.    *)
(***************************************************************************)
RequestErrors == {"HTTPError", "ConnectionError", "Timeout", "JSONDecodeError"}

Failed(e) == [ok |-> FALSE, error |-> e]
Ok(body) == [ok |-> TRUE, body |-> body]

\* service.py:91-97, the scoring results the workflow is run with.
UiScoringResults ==
    { [overall_score |-> 87,
       hard_requirements_match |-> [k \in {"Location Match"} |-> "Yes"],
       strengths_text |-> "- Strong Python background"],
      [overall_score |-> 40,
       hard_requirements_match |-> [k \in {"Location Match"} |-> "No"],
       strengths_text |-> "Not explicitly found or format incorrect."] }

\* service.py:143, the generated-questions texts the workflow is run with:
\* content.strip() may be the empty string.
UiQuestionTexts == {"", "1. Q1\n2. Q2"}

\* main.py:77-96 as seen through call_full_analysis (api_client.py:38-46).
FullAnalysisOutcomes(resume, jd) ==
    { Failed(e) : e \in RequestErrors } \cup
    { Ok([score |-> sc,
          interview_questions |-> q,
          extracted_resume_text |-> resume.content,
          extracted_jd_text |-> jd.content]) :
        sc \in UiScoringResults, q \in UiQuestionTexts }

\* service.py:249-255 as seen through call_analyze_interview_coverage.
UiQuestionLists == { <<>>, <<"Q1">> }
UiOwnQuestionLists == { <<>>, <<"Own question">> }

CoverageOutcomes(ai_gen_q_text, transcript) ==
    { Failed(e) : e \in RequestErrors } \cup
    { Ok([covered_generated_questions |-> c,
          uncovered_generated_questions |-> <<>>,
          interviewer_own_questions |-> o]) :
        c \in UiQuestionLists, o \in UiOwnQuestionLists }

\* os.path.splitext(file.filename)[1].lower()
FileExtension(file) ==
    CASE file.name \in {"r1.txt", "j1.txt", "j2.txt", "t1.txt", "t2.txt",
                         "r4.txt", "ai_generated_questions.txt"} -> ".txt"
      [] file.name \in {"r2.pdf", "j3.pdf", "t3.pdf", "questions.pdf"} -> ".pdf"
      [] file.name \in {"r3.docx"} -> ".docx"
      [] OTHER -> ""

\* pdf_extractor.py:9-37; pdfminer reads the PDF or raises.
extract_text_from_resume_file(file, pdf_readable) ==
    CASE FileExtension(file) = ".txt" -> Returned(file.content)
      [] FileExtension(file) = ".pdf" ->
            IF pdf_readable THEN Returned(file.content) ELSE Raised(422)
      [] OTHER -> Raised(400)

\* pdf_extractor.py:39-53
extract_text_from_jd_file(file) ==
    IF FileExtension(file) = ".txt" THEN Returned(file.content) ELSE Raised(400)

\* pdf_extractor.py:55-69
extract_text_from_conversation_file(file) ==
    IF FileExtension(file) = ".txt" THEN Returned(file.content) ELSE Raised(400)

\* The value of the form field all_questions_asked_json, by what
\* json.loads and the isinstance checks of main.py:138-140 make of it.
\* json.dumps of a list of strings (api_client.py:69) is the first kind;
\* '' and '[' are not JSON; '"x"', '["a", 1]' and '{}' are JSON but not a
\* list of strings; '[' * 100000 exceeds the recursion limit of the decoder.
JsonListOfStrings(list) == [json |-> "list of strings", value |-> list]
InvalidJson == [json |-> "invalid"]
NotListOfStrings == [json |-> "not a list of strings"]
DeeplyNestedJson == [json |-> "nested beyond the recursion limit"]

\* main.py:137-149: JSONDecodeError and ValueError are answered with 400;
\* the RecursionError of json.loads is neither, leaves the endpoint and is
\* answered by the server with 500.
parse_all_questions_asked(all_questions_asked_json) ==
    CASE all_questions_asked_json.json = "list of strings" ->
            Returned(all_questions_asked_json.value)
      [] all_questions_asked_json.json = "invalid" -> Raised(400)
      [] all_questions_asked_json.json = "not a list of strings" -> Raised(400)
      [] OTHER -> Raised(500)

\* What an endpoint answers, the uploads whose text it extracted and the
\* calls of the completion service it made on the way.
Responded(response, texts, calls) ==
    [response |-> response, texts_extracted |-> texts, completion_calls |-> calls]

\* main.py:120-162.  The response model (models.py:13-22) admits every
\* value the service function returns.
api_evaluate_candidate_responses(all_questions_asked_json, transcript, jd, resume, pdf_readable, answer) ==
    LET all_questions_asked == parse_all_questions_asked(all_questions_asked_json)
        conversation_transcript_text == extract_text_from_conversation_file(transcript)
        jd_text == extract_text_from_jd_file(jd)
        resume_text == extract_text_from_resume_file(resume, pdf_readable)
        evaluation == evaluate_candidate_responses_holistically(
                          all_questions_asked.value, answer)
    IN  IF all_questions_asked.raised THEN Responded(all_questions_asked, 0, 0)
        ELSE IF conversation_transcript_text.raised
             THEN Responded(conversation_transcript_text, 0, 0)
        ELSE IF jd_text.raised THEN Responded(jd_text, 1, 0)
        ELSE IF resume_text.raised THEN Responded(resume_text, 2, 0)
        ELSE Responded(evaluation.result, 3, evaluation.completion_calls)

\* service.py:121-150: content.strip(), or HTTPException 500 when the call
\* fails or the completion has no content.
generate_interview_questions(answer) ==
    IF ~answer.ok \/ answer.content = None THEN Raised(500)
    ELSE Returned(Strip(answer.content.text))

\* main.py:75-96
api_full_analysis(resume, jd, pdf_readable, scoring_answer, questions_answer) ==
    LET resume_text == extract_text_from_resume_file(resume, pdf_readable)
        jd_text == extract_text_from_jd_file(jd)
        scoring_result == score_resume_against_jd(scoring_answer)
        questions_text == generate_interview_questions(questions_answer)
    IN  IF resume_text.raised THEN Responded(resume_text, 0, 0)
        ELSE IF jd_text.raised THEN Responded(jd_text, 1, 0)
        ELSE IF scoring_result.raised THEN Responded(scoring_result, 2, 1)
        ELSE IF questions_text.raised THEN Responded(questions_text, 2, 2)
        ELSE Responded(Returned([score |-> scoring_result.value,
                                 interview_questions |-> questions_text.value,
                                 extracted_resume_text |-> resume_text.value,
                                 extracted_jd_text |-> jd_text.value]), 2, 2)

\* main.py:99-117
api_analyze_interview_questions(ai_generated_questions_file, transcript, answer) ==
    LET ai_generated_questions_text ==
            extract_text_from_conversation_file(ai_generated_questions_file)
        conversation_transcript == extract_text_from_conversation_file(transcript)
    IN  IF ai_generated_questions_text.raised
        THEN Responded(ai_generated_questions_text, 0, 0)
        ELSE IF conversation_transcript.raised
        THEN Responded(conversation_transcript, 1, 0)
        ELSE Responded(
                 analyze_interview_questions(ai_generated_questions_text.value, answer),
                 2, 1)

\* main.py:197-205: the text of the upload, by its content type.
\* pdfplumber reads the PDF or extract_text_from_pdf_bytes_for_detection
\* raises a plain Exception (pdf_extractor.py:71-94), shown here as status 0.
resume_text_for_detection(resume, pdf_readable) ==
    CASE resume.type = "application/pdf" ->
            IF pdf_readable THEN Returned(resume.content) ELSE Raised(0)
      [] resume.type = "text/plain" -> Returned(resume.content)
      [] OTHER -> Raised(400)

\* main.py:176-214 with a client.  The handler of main.py:210-214 catches
\* every exception raised in the try block, the HTTPExceptions of
\* main.py:204 and of detect_ai_resume among them, and raises 500.
detect_ai_resume_endpoint(resume, include_explanation, pdf_readable, first, second) ==
    LET resume_text == resume_text_for_detection(resume, pdf_readable)
        result == detect_ai_resume(resume_text.value, include_explanation, first, second)
    IN  IF resume_text.raised THEN Responded(Raised(500), 0, 0)
        ELSE IF result.result.raised
        THEN Responded(Raised(500), 1, Len(result.prompts))
        ELSE Responded(result.result, 1, Len(result.prompts))

\* api_client.py:8-26: the JSON body of a 200 response, HTTPError otherwise.
handle_api_response(response) ==
    IF response.raised THEN Failed("HTTPError") ELSE Ok(response.value)

\* api_client.py:60-72, call_evaluate_responses.
EvaluationOutcomes(all_questions_asked, transcript, jd, resume) ==
    { Failed(e) : e \in RequestErrors } \cup
    { handle_api_response(
          api_evaluate_candidate_responses(
              JsonListOfStrings(all_questions_asked), transcript, jd, resume,
              pdf_readable, answer).response) :
        pdf_readable \in BOOLEAN, answer \in EvaluationAnswers(all_questions_asked) }

\* service.py:451-488 as seen through call_detect_ai_resume; the client reads
\* the "data" member (app.py:176).
DetectOutcomes(resume) ==
    { Failed(e) : e \in RequestErrors } \cup
    { Ok([status |-> "success",
          data |-> [classification |-> "AI-Generated",
                    overall_confidence_score |-> 80]]) }

\* main.py:165-174 as seen through call_answer_follow_up.
FollowUpOutcomes(messages) ==
    { Failed(e) : e \in RequestErrors } \cup { Ok([answer |-> "An answer."]) }

\* Python truthiness of the values the script tests with `if x` / `if not x`:
\* an uploaded file or a stored result (a non-empty dict), a text, a list.
Truthy(v) == v # None
TruthyText(v) == v # ""
TruthyList(v) == v # <<>>

(***************************************************************************)
(* The session state after app.py:33-64 has run for the first time.        *)
(***************************************************************************)
InitialSessionState ==
    [job_description_text |-> "",
     candidate_resume_text |-> "",
     conversation_history |-> <<>>,
     jd_analysis_results |-> None,
     ai_detection_results |-> None,
     interview_analysis_results |-> None,
     candidate_evaluation_results |-> None,
     last_jd_hash |-> None,
     last_shared_resume_hash |-> None,
     last_conversation_transcript_hash |-> None,
     is_ai_detection_in_progress |-> FALSE,
     is_jd_analysis_in_progress |-> FALSE,
     is_interview_analysis_in_progress |-> FALSE,
     is_evaluation_in_progress |-> FALSE]

\* The four stage results of st.session_state (app.py:40-47).
Stages == {"ai_detection_results", "jd_analysis_results",
           "interview_analysis_results", "candidate_evaluation_results"}

\* The history variable after a step: the inputs of the result the step
\* stored, the inputs recorded earlier for a result the step kept, None for
\* a stage without a result.
ComputedFrom(stored, inputs) ==
    [k \in Stages |->
        IF session_state'[k] = None THEN None
        ELSE IF k = stored THEN inputs
        ELSE computed_from[k]]

NothingStored == computed_from' = ComputedFrom("none", None)

UiInit ==
    /\ shared_resume_file = None
    /\ jd_file = None
    /\ conversation_transcript_file = None
    /\ event = "none"
    /\ pc = "idle"
    /\ session_state = InitialSessionState
    /\ before = InitialSessionState
    /\ signal = "none"
    /\ request = None
    /\ widgets = {}
    /\ computed_from = [k \in Stages |-> None]

\* No service function has been called.
ServiceInit ==
    /\ service_call = None
    /\ completion = None
    /\ declared = None
    /\ service_result = None
    /\ completion_calls = 0
    /\ texts_extracted = 0

Events == {"none", "detect_ai_button", "analyze_jd_resume_button",
           "analyze_interview_button", "evaluate_responses_button", "chat_input"}

UserMessages(history) ==
    Cardinality({i \in 1..Len(history) : history[i].role = "user"})

(***************************************************************************)
(* app.py:66-109: a script run starts and runs the file-change check.      *)
(* A widget interaction reruns the script from the top: either the         *)
(* uploaders hold new files, or a button or the chat input was used.  Only *)
(* a widget the previous run rendered can have been used.  The check is an *)
(* if / elif / elif chain over the three hashes.                           *)
(***************************************************************************)
FileChangeCheck ==
    /\ pc = "idle"
    /\ \E ev \in Events, r \in ResumeFiles \cup {None}, j \in JdFiles \cup {None},
          t \in TranscriptFiles \cup {None} :
         /\ ev = "none" \/ ev \in widgets
         /\ "uploaders" \in widgets
              \/ (r = shared_resume_file /\ j = jd_file
                    /\ t = conversation_transcript_file)
         /\ ev = "none"
              \/ (r = shared_resume_file /\ j = jd_file
                    /\ t = conversation_transcript_file)
         /\ ev = "chat_input" =>
              UserMessages(session_state.conversation_history) < MaxTurns
         /\ event' = ev
         /\ shared_resume_file' = r
         /\ jd_file' = j
         /\ conversation_transcript_file' = t
         /\ LET s == session_state
                current_shared_resume_hash == get_file_hash(r)
                current_jd_hash == get_file_hash(j)
                current_conversation_transcript_hash == get_file_hash(t)
            IN  IF current_shared_resume_hash # s.last_shared_resume_hash
                THEN /\ session_state' =
                           [clear_all_analysis_state(s) EXCEPT
                              !.last_shared_resume_hash =
                                  current_shared_resume_hash,
                              !.last_jd_hash = None,
                              !.last_conversation_transcript_hash = None]
                     /\ signal' = IF s.last_shared_resume_hash # None
                                  THEN "info: new resume" ELSE "none"
                ELSE IF current_jd_hash # s.last_jd_hash
                THEN /\ session_state' =
                           [clear_jd_dependent_analysis_state(s) EXCEPT
                              !.last_jd_hash = current_jd_hash]
                     /\ signal' = IF s.last_jd_hash # None
                                  THEN "info: new jd" ELSE "none"
                ELSE IF current_conversation_transcript_hash #
                            s.last_conversation_transcript_hash
                THEN /\ session_state' =
                           [clear_interview_related_state(s) EXCEPT
                              !.last_conversation_transcript_hash =
                                  current_conversation_transcript_hash]
                     /\ signal' = IF s.last_conversation_transcript_hash # None
                                  THEN "info: new transcript" ELSE "none"
                ELSE /\ session_state' = s
                     /\ signal' = "none"
    /\ pc' = "tab1"
    /\ before' = session_state
    /\ request' = None
    /\ widgets' = {"uploaders"}
    /\ NothingStored
    /\ service_call' = None
    /\ completion' = None
    /\ declared' = None
    /\ service_result' = None
    /\ completion_calls' = 0
    /\ texts_extracted' = 0

(***************************************************************************)
(* The four button handlers once their preconditions hold, as functions    *)
(* of the session state and of the outcome of the backend request: the     *)
(* stored results are cleared on click, the try body stores the response,  *)
(* the except clauses only report, the finally clause resets the progress  *)
(* flag.                                                                   *)
(***************************************************************************)
\* app.py:165-183
detect_ai_handler(s, outcome) ==
    [s EXCEPT !.ai_detection_results =
                  IF outcome.ok THEN outcome.body.data ELSE None,
              !.is_ai_detection_in_progress = FALSE]

\* app.py:252-257
InitialAssistantMessage ==
    [role |-> "assistant", content |-> [text |-> "I have reviewed the resume"]]

analyze_jd_resume_handler_restores_on_error(s, outcome) ==
    IF outcome.ok
    THEN [clear_jd_dependent_analysis_state(s) EXCEPT
            !.jd_analysis_results = outcome.body,
            !.job_description_text = outcome.body.extracted_jd_text,
            !.candidate_resume_text = outcome.body.extracted_resume_text,
            !.conversation_history = <<InitialAssistantMessage>>,
            !.is_jd_analysis_in_progress = FALSE]
    ELSE [s EXCEPT !.is_jd_analysis_in_progress = FALSE]

\* app.py:236-264
analyze_jd_resume_handler(s, outcome) ==
    LET cleared == clear_jd_dependent_analysis_state(s) IN
    IF outcome.ok
    THEN [cleared EXCEPT
            !.jd_analysis_results = outcome.body,
            !.job_description_text = outcome.body.extracted_jd_text,
            !.candidate_resume_text = outcome.body.extracted_resume_text,
            !.conversation_history = <<InitialAssistantMessage>>,
            !.is_jd_analysis_in_progress = FALSE]
    ELSE [cleared EXCEPT !.is_jd_analysis_in_progress = FALSE]

\* app.py:375-400, past the check of the generated-questions text
analyze_interview_handler(s, outcome) ==
    [clear_interview_related_state(s) EXCEPT
        !.interview_analysis_results = IF outcome.ok THEN outcome.body ELSE None,
        !.is_interview_analysis_in_progress = FALSE]

evaluate_responses_handler_resets_on_error(s, outcome) ==
    IF outcome.ok
    THEN [s EXCEPT !.candidate_evaluation_results = outcome.body,
                   !.is_evaluation_in_progress = FALSE]
    ELSE [clear_interview_related_state(s) EXCEPT
             !.is_evaluation_in_progress = FALSE]

evaluate_responses_handler_clears_history(s, outcome) ==
    [s EXCEPT !.candidate_evaluation_results =
                  IF outcome.ok THEN outcome.body ELSE None,
              !.conversation_history = <<>>,
              !.is_evaluation_in_progress = FALSE]

\* app.py:458-491, past the check of the question list
evaluate_responses_handler(s, outcome) ==
    [s EXCEPT !.candidate_evaluation_results =
                  IF outcome.ok THEN outcome.body ELSE None,
              !.is_evaluation_in_progress = FALSE]

FilesAndEventUnchanged ==
    UNCHANGED <<shared_resume_file, jd_file, conversation_transcript_file, event>>

(***************************************************************************)
(* app.py:152-220, tab 1: the AI-detection button and its handler.         *)
(***************************************************************************)
Tab1 ==
    /\ pc = "tab1"
    /\ LET s == session_state IN
       \/ /\ event # "detect_ai_button"
          /\ session_state' = s
          /\ signal' = "none"
          /\ request' = None
       \/ /\ event = "detect_ai_button"
          /\ ~Truthy(shared_resume_file)
          /\ session_state' = s
          /\ signal' = "error: precondition"
          /\ request' = None
       \/ /\ event = "detect_ai_button"
          /\ Truthy(shared_resume_file)
          /\ \E outcome \in DetectOutcomes(shared_resume_file) :
               /\ session_state' = detect_ai_handler(s, outcome)
               /\ signal' = IF outcome.ok THEN "success" ELSE "error: request"
          /\ request' = [endpoint |-> "/resume/detect_ai",
                         resume_file |-> shared_resume_file]
    /\ pc' = "tab2"
    /\ before' = session_state
    /\ widgets' = widgets \cup {"detect_ai_button"}
    /\ computed_from' =
         ComputedFrom(IF request' # None THEN "ai_detection_results" ELSE "none",
                      [resume_file |-> shared_resume_file])
    /\ FilesAndEventUnchanged
    /\ ServiceUnchanged

(***************************************************************************)
(* app.py:222-357, tab 2: the scoring button and its handler.              *)
(***************************************************************************)
Tab2 ==
    /\ pc = "tab2"
    /\ LET s == session_state IN
       \/ /\ event # "analyze_jd_resume_button"
          /\ session_state' = s
          /\ signal' = "none"
          /\ request' = None
       \/ /\ event = "analyze_jd_resume_button"
          /\ ~Truthy(jd_file) \/ ~Truthy(shared_resume_file)
          /\ session_state' = s
          /\ signal' = "error: precondition"
          /\ request' = None
       \/ /\ event = "analyze_jd_resume_button"
          /\ Truthy(jd_file) /\ Truthy(shared_resume_file)
          /\ \E outcome \in FullAnalysisOutcomes(shared_resume_file, jd_file) :
               /\ session_state' = analyze_jd_resume_handler(s, outcome)
               /\ signal' = IF outcome.ok THEN "success" ELSE "error: request"
          /\ request' = [endpoint |-> "/full-analysis/",
                         jd_file |-> jd_file, resume_file |-> shared_resume_file]
    /\ pc' = "tab3"
    /\ before' = session_state
    /\ widgets' = widgets \cup {"analyze_jd_resume_button"}
    /\ computed_from' =
         ComputedFrom(IF request' # None THEN "jd_analysis_results" ELSE "none",
                      [resume_file |-> shared_resume_file, jd_file |-> jd_file])
    /\ FilesAndEventUnchanged
    /\ ServiceUnchanged

(***************************************************************************)
(* app.py:359-439, tab 3: the coverage button and its handler.  st.stop()  *)
(* (app.py:385) ends the script run; the finally clause still runs.        *)
(***************************************************************************)
Tab3 ==
    /\ pc = "tab3"
    /\ LET s == session_state IN
       \/ /\ event # "analyze_interview_button"
          /\ session_state' = s
          /\ signal' = "none"
          /\ request' = None
          /\ pc' = "tab4"
       \/ /\ event = "analyze_interview_button"
          /\ ~Truthy(conversation_transcript_file) \/ ~Truthy(s.jd_analysis_results)
          /\ session_state' = s
          /\ signal' = "error: precondition"
          /\ request' = None
          /\ pc' = "tab4"
       \/ /\ event = "analyze_interview_button"
          /\ Truthy(conversation_transcript_file)
          /\ Truthy(s.jd_analysis_results)
          /\ ~TruthyText(s.jd_analysis_results.interview_questions)
          /\ session_state' =
               [clear_interview_related_state(s) EXCEPT
                   !.is_interview_analysis_in_progress = FALSE]
          /\ signal' = "error: precondition"
          /\ request' = None
          /\ pc' = "idle"
       \/ /\ event = "analyze_interview_button"
          /\ Truthy(conversation_transcript_file)
          /\ Truthy(s.jd_analysis_results)
          /\ TruthyText(s.jd_analysis_results.interview_questions)
          /\ \E outcome \in
                 CoverageOutcomes(s.jd_analysis_results.interview_questions,
                                  conversation_transcript_file) :
               /\ session_state' = analyze_interview_handler(s, outcome)
               /\ signal' = IF outcome.ok THEN "success" ELSE "error: request"
          /\ request' =
               [endpoint |-> "/result/analyze-interview-questions/",
                ai_generated_questions |-> s.jd_analysis_results.interview_questions,
                conversation_transcript_file |-> conversation_transcript_file]
          /\ pc' = "tab4"
    /\ before' = session_state
    /\ widgets' = widgets \cup {"analyze_interview_button"}
    /\ computed_from' =
         ComputedFrom(IF request' # None THEN "interview_analysis_results" ELSE "none",
                      [jd_analysis_results |-> session_state.jd_analysis_results,
                       conversation_transcript_file |-> conversation_transcript_file])
    /\ FilesAndEventUnchanged
    /\ ServiceUnchanged

(***************************************************************************)
(* app.py:441-515, tab 4: the evaluation button and its handler.           *)
(***************************************************************************)
Tab4 ==
    /\ pc = "tab4"
    /\ LET s == session_state IN
       \/ /\ event # "evaluate_responses_button"
          /\ session_state' = s
          /\ signal' = "none"
          /\ request' = None
       \/ /\ event = "evaluate_responses_button"
          /\ \/ ~Truthy(s.interview_analysis_results)
             \/ ~Truthy(conversation_transcript_file)
             \/ ~Truthy(jd_file)
             \/ ~Truthy(shared_resume_file)
          /\ session_state' = s
          /\ signal' = "error: precondition"
          /\ request' = None
       \/ /\ event = "evaluate_responses_button"
          /\ Truthy(s.interview_analysis_results)
          /\ Truthy(conversation_transcript_file)
          /\ Truthy(jd_file)
          /\ Truthy(shared_resume_file)
          /\ LET all_questions_to_evaluate ==
                    s.interview_analysis_results.covered_generated_questions
                      \o s.interview_analysis_results.interviewer_own_questions
             IN  IF ~TruthyList(all_questions_to_evaluate)
                 THEN /\ session_state' =
                           [s EXCEPT !.candidate_evaluation_results = None,
                                     !.is_evaluation_in_progress = FALSE]
                      /\ signal' = "warning: precondition"
                      /\ request' = None
                 ELSE /\ \E outcome \in
                             EvaluationOutcomes(all_questions_to_evaluate,
                                                conversation_transcript_file,
                                                jd_file, shared_resume_file) :
                           /\ session_state' =
                                evaluate_responses_handler(s, outcome)
                           /\ signal' = IF outcome.ok THEN "success"
                                        ELSE "error: request"
                      /\ request' =
                           [endpoint |-> "/evaluate-candidate-responses/",
                            all_questions_asked |-> all_questions_to_evaluate,
                            conversation_transcript_file |->
                                conversation_transcript_file,
                            jd_file |-> jd_file,
                            resume_file |-> shared_resume_file]
    /\ pc' = "tab5"
    /\ before' = session_state
    /\ widgets' = widgets \cup {"evaluate_responses_button"}
    /\ computed_from' =
         ComputedFrom(IF request' # None THEN "candidate_evaluation_results" ELSE "none",
                      [interview_analysis_results |->
                           session_state.interview_analysis_results,
                       conversation_transcript_file |-> conversation_transcript_file,
                       jd_file |-> jd_file,
                       resume_file |-> shared_resume_file])
    /\ FilesAndEventUnchanged
    /\ ServiceUnchanged

(***************************************************************************)
(* app.py:523-594: the system message of the follow-up conversation.       *)
(***************************************************************************)
\* app.py:525-547
eligibility_summary(s) ==
    LET hard_requirements == s.jd_analysis_results.score.hard_requirements_match
        is_hard_eligible ==
            \A req_key \in DOMAIN hard_requirements :
                hard_requirements[req_key] # "No"
    IN  IF ~is_hard_eligible THEN "NOT ELIGIBLE" ELSE "MEETS THE MINIMUM CRITERIA"

\* app.py:552-581
qa_context_summary(s, transcript_file) ==
    [eligibility_summary |-> eligibility_summary(s),
     job_description |-> s.job_description_text,
     resume |-> s.candidate_resume_text,
     transcript |-> IF Truthy(transcript_file)
                    THEN [text |-> transcript_file.content] ELSE None,
     initial_analysis |->
        IF Truthy(s.jd_analysis_results)
        THEN [overall_score |-> s.jd_analysis_results.score.overall_score,
              strengths |-> s.jd_analysis_results.score.strengths_text,
              questions |-> s.jd_analysis_results.interview_questions]
        ELSE None,
     coverage |->
        IF Truthy(s.interview_analysis_results)
        THEN [covered |-> s.interview_analysis_results.covered_generated_questions,
              uncovered |->
                  s.interview_analysis_results.uncovered_generated_questions,
              own |-> s.interview_analysis_results.interviewer_own_questions]
        ELSE None,
     evaluations |->
        IF Truthy(s.candidate_evaluation_results)
        THEN [overall_interview_score |->
                  s.candidate_evaluation_results.overall_interview_score,
              overall_interview_summary |->
                  s.candidate_evaluation_results.overall_interview_summary,
              individual |-> s.candidate_evaluation_results.individual_evaluations]
        ELSE None]

with_system_message_always(s, transcript_file) ==
    [s EXCEPT !.conversation_history =
        << [role |-> "system",
            content |-> qa_context_summary(s, transcript_file)],
           [role |-> "assistant",
            content |-> [text |-> "I have completed the full analysis"]] >>]

\* app.py:550-594
with_system_message(s, transcript_file) ==
    IF s.conversation_history = <<>>
          \/ s.conversation_history[1].role # "system"
    THEN [s EXCEPT !.conversation_history =
            << [role |-> "system",
                content |-> qa_context_summary(s, transcript_file)],
               [role |-> "assistant",
                content |-> [text |-> "I have completed the full analysis"]] >>]
    ELSE s

UserQuestions == { "A question?" }

\* app.py:604
with_user_question(s, user_question) ==
    [s EXCEPT !.conversation_history =
        Append(@, [role |-> "user", content |-> [text |-> user_question]])]

with_answer_unless_failed(s, outcome) ==
    IF outcome.ok
    THEN [s EXCEPT !.conversation_history =
             Append(@, [role |-> "assistant",
                        content |-> [text |-> outcome.body.answer]])]
    ELSE s

with_answer_after_reset(s, outcome) ==
    [clear_interview_related_state(s) EXCEPT !.conversation_history =
        Append(s.conversation_history,
               [role |-> "assistant",
                content |-> IF outcome.ok THEN [text |-> outcome.body.answer]
                            ELSE [text |-> "Error during Q&A"]])]

\* app.py:606-624: the answer of the backend, or the error message, is
\* appended as the assistant's message.
with_answer(s, outcome) ==
    [s EXCEPT !.conversation_history =
        Append(@, [role |-> "assistant",
                   content |-> IF outcome.ok THEN [text |-> outcome.body.answer]
                               ELSE [text |-> "Error during Q&A"]])]

(***************************************************************************)
(* app.py:517-627, tab 5: the follow-up conversation.  Reading             *)
(* jd_analysis_results.get at app.py:525 raises if the result is None: the *)
(* run then ends with an exception.  st.rerun() ends the run after a turn. *)
(***************************************************************************)
Tab5 ==
    /\ pc = "tab5"
    /\ LET s == session_state
           enabled == TruthyText(s.job_description_text)
                        /\ TruthyText(s.candidate_resume_text)
       IN
       \/ /\ ~enabled
          /\ session_state' = s
          /\ signal' = "info: upload and analyze"
          /\ request' = None
          /\ widgets' = widgets
       \/ /\ enabled
          /\ event # "chat_input"
          /\ IF s.jd_analysis_results = None
             THEN /\ session_state' = s
                  /\ signal' = "exception"
                  /\ widgets' = widgets
             ELSE /\ session_state' =
                        with_system_message(s, conversation_transcript_file)
                  /\ signal' = "none"
                  /\ widgets' = widgets \cup {"chat_input"}
          /\ request' = None
       \/ /\ enabled
          /\ event = "chat_input"
          /\ IF s.jd_analysis_results = None
             THEN /\ session_state' = s
                  /\ signal' = "exception"
                  /\ request' = None
                  /\ widgets' = widgets
             ELSE \E user_question \in UserQuestions :
                  LET s1 == with_system_message(s, conversation_transcript_file)
                      asked == with_user_question(s1, user_question)
                  IN  /\ \E outcome \in FollowUpOutcomes(asked.conversation_history) :
                           /\ session_state' = with_answer(asked, outcome)
                           /\ signal' = IF outcome.ok THEN "none"
                                        ELSE "error: request"
                      /\ request' = [endpoint |-> "/answer-follow-up-question/",
                                     messages |-> asked.conversation_history]
                      /\ widgets' = widgets \cup {"chat_input"}
    /\ pc' = "idle"
    /\ before' = session_state
    /\ NothingStored
    /\ FilesAndEventUnchanged
    /\ ServiceUnchanged

UiNext ==
    \/ FileChangeCheck
    \/ Tab1
    \/ Tab2
    \/ Tab3
    \/ Tab4
    \/ Tab5

vars == <<uivars, servicevars>>

Init == UiInit /\ ServiceInit

Next == UiNext

Spec == Init /\ [][Next]_vars

(***************************************************************************)
(* The scoring function on its own: one call of score_resume_against_jd,   *)
(* answered by the completion service with any of ScoringAnswers.          *)
(***************************************************************************)
ScoreResume ==
    /\ service_call = None
    /\ service_call' = [function |-> "score_resume_against_jd"]
    /\ \E a \in ScoringAnswers :
         /\ completion' = a.completion
         /\ declared' = a.declared
         /\ service_result' = score_resume_against_jd(a.completion)
    /\ completion_calls' = completion_calls + 1
    /\ UNCHANGED <<uivars, texts_extracted>>

ScoringNext == ScoreResume

SpecScoring == Init /\ [][ScoringNext]_vars

(***************************************************************************)
(* The question parser on its own: one call of _parse_generated_questions  *)
(* on a numbered list written from a list of questions, or on any short    *)
(* text.                                                                   *)
(***************************************************************************)
\* Bound: the number of questions of a numbered list.
MaxQuestions == 3

\* Bound: the length of a text that follows no format.
MaxTextLen == 5

\* Question texts: non-empty, trimmed, on a single line.
QuestionBodies ==
    {<<"A">>, <<"B">>, <<"C">>, <<"Why X?">>, <<"2", ".", " ", "B">>,
     <<"A", " ", "1", ".">>, <<"1", "0">>}

QuestionLists ==
    UNION {[1..n -> QuestionBodies] : n \in 1..MaxQuestions}
      \cup {[i \in 1..12 |-> IF i % 2 = 0 THEN <<"A">> ELSE <<"Why X?">>]}

TextChars == {"1", ".", ")", " ", "\n", "B"}

ShortTexts == UNION {[1..n -> TextChars] : n \in 0..MaxTextLen}

\* The lines `<i>. <q_i>` joined by newlines, and the texts of no format.
QuestionInputs ==
    {[text |-> ai_questions_formatted_for_prompt(qs),
      declared |-> [questions |-> qs]] : qs \in QuestionLists}
      \cup {[text |-> t, declared |-> None] : t \in ShortTexts}

ParseGeneratedQuestions ==
    /\ service_call = None
    /\ \E input \in QuestionInputs :
         /\ service_call' = [function |-> "_parse_generated_questions",
                             question_text |-> input.text]
         /\ declared' = input.declared
         /\ service_result' = Returned(_parse_generated_questions(input.text))
    /\ UNCHANGED <<completion, completion_calls>>
    /\ UNCHANGED <<uivars, texts_extracted>>

QuestionsNext == ParseGeneratedQuestions

SpecQuestions == Init /\ [][QuestionsNext]_vars

(***************************************************************************)
(* The coverage function on its own: one call of                           *)
(* analyze_interview_questions, answered by the completion service with    *)
(* any of CoverageAnswers.                                                 *)
(***************************************************************************)
\* ai_generated_questions_text: the stored interview_questions, a stripped
\* completion text (service.py:143), or whatever a client of the endpoint
\* sends.
GeneratedQuestionTexts ==
    {<<>>, <<" ", "\n">>,
     <<"1", ".", " ", "Q1?", "\n", "2", ".", " ", "Q2?">>,
     <<"Q1?", "\n", "Q2?">>}

AnalyzeInterviewQuestions ==
    /\ service_call = None
    /\ \E text \in GeneratedQuestionTexts :
         \E a \in CoverageAnswers :
            /\ service_call' =
                 [function |-> "analyze_interview_questions",
                  ai_generated_questions_text |-> text]
            /\ completion' = a.completion
            /\ declared' = a.declared
            /\ service_result' = analyze_interview_questions(text, a.completion)
    /\ completion_calls' = completion_calls + 1
    /\ UNCHANGED <<uivars, texts_extracted>>

CoverageNext == AnalyzeInterviewQuestions

SpecCoverage == Init /\ [][CoverageNext]_vars

(***************************************************************************)
(* The two scoring functions on their own: one call of                     *)
(* score_resume_against_jd or of evaluate_candidate_responses_holistically,*)
(* answered by the completion service.                                     *)
(***************************************************************************)
AskedQuestionLists == {<<>>, <<"Q1">>, <<"Q1", "Own question">>}

EvaluateResponses ==
    /\ service_call = None
    /\ \E q \in AskedQuestionLists :
         \E answer \in EvaluationAnswers(q) \cup EvaluationScoredAnswers(q) :
            LET e == evaluate_candidate_responses_holistically(q, answer)
            IN  /\ service_call' =
                     [function |-> "evaluate_candidate_responses_holistically",
                      all_questions_asked |-> q]
                /\ completion' = IF e.completion_calls = 0 THEN None ELSE answer
                /\ service_result' = e.result
                /\ completion_calls' = e.completion_calls
    /\ declared' = None
    /\ UNCHANGED <<uivars, texts_extracted>>

ScoresNext ==
    \/ ScoreResume
    \/ EvaluateResponses

SpecScores == Init /\ [][ScoresNext]_vars

(***************************************************************************)
(* evaluate_candidate_responses_holistically answered with a text of        *)
(* blocks in the output format of the prompt (service.py:310-326), the     *)
(* i-th block about question Qi with summary Si, score i and rationale Ri; *)
(* a block may lack one of its four lines.                                 *)
(***************************************************************************)
\* Bound: the number of blocks of an answer.
MaxBlocks == 3

BlockLines == <<"Question", "Response Summary", "Score", "Rationale">>

BlockField(line, i) ==
    CASE line = "Question" -> <<"Q">> \o Decimal(i)
      [] line = "Response Summary" -> <<"S">> \o Decimal(i)
      [] line = "Score" -> Decimal(i) \o <<"/", "1", "0">>
      [] line = "Rationale" -> <<"R">> \o Decimal(i)

\* The lines of block i but the one named by `missing`.
BlockText(i, missing) ==
    Cat([n \in 1..4 |->
            IF BlockLines[n] = missing THEN <<>>
            ELSE <<BlockLines[n], ":", " ">> \o BlockField(BlockLines[n], i)
                   \o <<"\n">>])

BlocksText(blocks) ==
    <<"--- EVALUATION START ---", "\n">>
      \o Cat([i \in 1..Len(blocks) |->
                 BlockText(i, blocks[i])
                   \o (IF i < Len(blocks) THEN <<"---", "\n">> ELSE <<>>)])
      \o <<"--- OVERALL INTERVIEW PERFORMANCE ---", "\n">>
      \o ScoreLine("Overall Score", 70)
      \o <<"Overall Summary", ":", " ", "Solid", "\n",
           "--- EVALUATION END ---">>

BlockLists ==
    UNION { [1..k -> {"none", "Question", "Response Summary", "Score", "Rationale"}] :
              k \in 1..MaxBlocks }

EvaluateBlocks ==
    /\ service_call = None
    /\ \E blocks \in BlockLists :
         LET all_questions_asked == [i \in 1..Len(blocks) |-> BlockField("Question", i)]
             answer == Completion([text |-> BlocksText(blocks)])
             e == evaluate_candidate_responses_holistically(all_questions_asked, answer)
         IN  /\ service_call' =
                  [function |-> "evaluate_candidate_responses_holistically",
                   all_questions_asked |-> all_questions_asked]
             /\ completion' = answer
             /\ declared' = [blocks |-> blocks]
             /\ service_result' = e.result
             /\ completion_calls' = e.completion_calls
    /\ UNCHANGED <<uivars, texts_extracted>>

BlocksNext == EvaluateBlocks

SpecBlocks == Init /\ [][BlocksNext]_vars

(***************************************************************************)
(* detect_ai_resume on its own: one call of the function, the completion   *)
(* service answering its one or two requests.                              *)
(***************************************************************************)
DetectAiResume ==
    /\ service_call = None
    /\ \E resume_text \in {"resume one", ""}, include_explanation \in BOOLEAN :
         \E first \in DetectionAnswers, second \in ExplanationAnswers :
            LET d == detect_ai_resume(resume_text, include_explanation, first, second)
            IN  /\ service_call' =
                     [function |-> "detect_ai_resume",
                      resume_text |-> resume_text,
                      include_explanation |-> include_explanation,
                      prompts |-> d.prompts,
                      second |-> IF Len(d.prompts) = 2 THEN second ELSE None]
                /\ completion' = IF d.prompts = <<>> THEN None ELSE first
                /\ service_result' = d.result
                /\ completion_calls' = Len(d.prompts)
    /\ declared' = None
    /\ UNCHANGED <<uivars, texts_extracted>>

DetectionNext == DetectAiResume

SpecDetection == Init /\ [][DetectionNext]_vars

(***************************************************************************)
(* The four endpoints that take uploads, each called once with uploads of  *)
(* supported and unsupported formats; the completion service answers or    *)
(* fails.                                                                  *)
(***************************************************************************)
EndpointResumeFiles ==
    ResumeFiles \cup
    { [name |-> "r3.docx",
       type |-> "application/vnd.openxmlformats-officedocument.wordprocessingml.document",
       content |-> "resume three"],
      [name |-> "r4.txt", type |-> "text/plain", content |-> ""] }

EndpointJdFiles ==
    JdFiles \cup
    { [name |-> "j3.pdf", type |-> "application/pdf", content |-> "jd three"] }

EndpointTranscriptFiles ==
    TranscriptFiles \cup
    { [name |-> "t3.pdf", type |-> "application/pdf", content |-> "transcript three"] }

EndpointQuestionFiles ==
    { [name |-> "ai_generated_questions.txt", type |-> "text/plain",
       content |-> <<"1", ".", " ", "Q1", "\n", "2", ".", " ", "Q2">>],
      [name |-> "questions.pdf", type |-> "application/pdf",
       content |-> <<"1", ".", " ", "Q1">>] }

QuestionPayloads ==
    { JsonListOfStrings(<<>>), JsonListOfStrings(<<"Q1">>),
      InvalidJson, NotListOfStrings, DeeplyNestedJson }

EndpointScoringAnswers ==
    { Completion([text |-> <<"OVERALL_SCORE", ":", " ", "8", "7", "/", "1", "0", "0">>]),
      Completion(None), CompletionFailed }

EndpointQuestionAnswers ==
    { Completion([text |-> <<"1", ".", " ", "Q1", "\n">>]),
      Completion(None), CompletionFailed }

EndpointCoverageAnswers ==
    { Completion([text |-> CoverageText(<<"Q1">>, <<"Q2">>, <<>>, <<"\n">>)]),
      Completion(None), CompletionFailed }

EndpointDetectionAnswers ==
    { Completion([text |-> DetectionLine("Classification", <<"Human-Written">>)
                       \o DetectionLine("Overall Confidence Score", Decimal(85))]),
      Completion(None), CompletionFailed }

Answered(call, response) ==
    /\ service_call' = call
    /\ service_result' = response.response
    /\ texts_extracted' = response.texts_extracted
    /\ completion_calls' = response.completion_calls
    /\ completion' = None
    /\ declared' = None
    /\ UNCHANGED uivars

ApiFullAnalysis ==
    /\ service_call = None
    /\ \E resume \in EndpointResumeFiles, jd \in EndpointJdFiles, pdf_readable \in BOOLEAN :
         \E scoring_answer \in EndpointScoringAnswers,
            questions_answer \in EndpointQuestionAnswers :
            Answered([endpoint |-> "/full-analysis/", uploads |-> <<resume, jd>>,
                      pdf_readable |-> pdf_readable],
                     api_full_analysis(resume, jd, pdf_readable,
                                       scoring_answer, questions_answer))

ApiAnalyzeInterviewQuestions ==
    /\ service_call = None
    /\ \E ai_generated_questions_file \in EndpointQuestionFiles,
          transcript \in EndpointTranscriptFiles :
         \E answer \in EndpointCoverageAnswers :
            Answered([endpoint |-> "/result/analyze-interview-questions/",
                      uploads |-> <<ai_generated_questions_file, transcript>>],
                     api_analyze_interview_questions(
                         ai_generated_questions_file, transcript, answer))

ApiEvaluateCandidateResponses ==
    /\ service_call = None
    /\ \E all_questions_asked_json \in QuestionPayloads,
          transcript \in EndpointTranscriptFiles, jd \in EndpointJdFiles,
          resume \in EndpointResumeFiles, pdf_readable \in BOOLEAN :
         \E answer \in EvaluationAnswers(<<"Q1">>) :
            Answered([endpoint |-> "/evaluate-candidate-responses/",
                      uploads |-> <<transcript, jd, resume>>,
                      pdf_readable |-> pdf_readable,
                      all_questions_asked_json |-> all_questions_asked_json],
                     api_evaluate_candidate_responses(
                         all_questions_asked_json, transcript, jd, resume,
                         pdf_readable, answer))

DetectAiResumeEndpoint ==
    /\ service_call = None
    /\ \E resume \in EndpointResumeFiles, include_explanation \in BOOLEAN,
          pdf_readable \in BOOLEAN :
         \E first \in EndpointDetectionAnswers, second \in ExplanationAnswers :
            Answered([endpoint |-> "/resume/detect_ai", uploads |-> <<resume>>,
                      pdf_readable |-> pdf_readable,
                      include_explanation |-> include_explanation],
                     detect_ai_resume_endpoint(resume, include_explanation,
                                               pdf_readable, first, second))

EndpointsNext ==
    \/ ApiFullAnalysis
    \/ ApiAnalyzeInterviewQuestions
    \/ ApiEvaluateCandidateResponses
    \/ DetectAiResumeEndpoint

SpecEndpoints == Init /\ [][EndpointsNext]_vars

(***************************************************************************)
(* The workflow, and a caller of evaluate_candidate_responses_holistically  *)
(* with a question list of its own.  The call and the script share no      *)
(* state, so one place of interleaving stands for all: the call is made    *)
(* between two script runs, after a run in which the evaluation button was *)
(* used.                                                                   *)
(***************************************************************************)
DirectQuestionLists == {<<>>, <<"Q1">>, <<"Q1", "Own question">>}

EvaluateCandidateResponses ==
    /\ pc = "idle"
    /\ event = "evaluate_responses_button"
    /\ service_call = None
    /\ \E q \in DirectQuestionLists :
         \E answer \in EvaluationAnswers(q) :
            LET e == evaluate_candidate_responses_holistically(q, answer)
            IN  /\ service_call' =
                     [function |-> "evaluate_candidate_responses_holistically",
                      all_questions_asked |-> q]
                /\ completion' = IF e.completion_calls = 0 THEN None ELSE answer
                /\ service_result' = e.result
                /\ completion_calls' = e.completion_calls
    /\ declared' = None
    /\ UNCHANGED <<uivars, texts_extracted>>

EvaluationNext ==
    \/ FileChangeCheck
    \/ Tab1
    \/ Tab2
    \/ Tab3
    \/ Tab4
    \/ Tab5
    \/ EvaluateCandidateResponses

SpecEvaluation == Init /\ [][EvaluationNext]_vars

(***************************************************************************)
(* Claims about the Streamlit workflow, checked under Spec.                *)
(***************************************************************************)
\* The state right after the file-change check, and which hashes the check
\* found changed (`before` is the session state the run started with).
AfterFileChangeCheck == pc = "tab1"
ResumeChanged == get_file_hash(shared_resume_file) # before.last_shared_resume_hash
JdChanged == get_file_hash(jd_file) # before.last_jd_hash
TranscriptChanged ==
    get_file_hash(conversation_transcript_file) #
        before.last_conversation_transcript_hash

\* C1: on a run in which the resume hash differs from last_shared_resume_hash,
\* after the file-change check the four stage results are None, the
\* conversation history is empty and both extracted texts are empty.
C1_ResumeChangeResetsEverything ==
    (AfterFileChangeCheck /\ ResumeChanged) =>
        /\ session_state.jd_analysis_results = None
        /\ session_state.ai_detection_results = None
        /\ session_state.interview_analysis_results = None
        /\ session_state.candidate_evaluation_results = None
        /\ session_state.conversation_history = <<>>
        /\ session_state.job_description_text = ""
        /\ session_state.candidate_resume_text = ""

\* C1 witness: the resume is replaced in a session that had reached the last
\* stage, with AI detection done and a conversation under way.
C1_Witness ==
    /\ AfterFileChangeCheck /\ ResumeChanged
    /\ before.jd_analysis_results # None
    /\ before.ai_detection_results # None
    /\ before.interview_analysis_results # None
    /\ before.candidate_evaluation_results # None
    /\ before.conversation_history # <<>>
    /\ before.job_description_text # ""

\* C2: on a run in which the JD hash differs from last_jd_hash and the resume
\* hash is unchanged, after the file-change check the scoring, coverage and
\* evaluation results are None and ai_detection_results is what it was before
\* the run.
C2_JdChangeKeepsAiDetection ==
    (AfterFileChangeCheck /\ ~ResumeChanged /\ JdChanged) =>
        /\ session_state.jd_analysis_results = None
        /\ session_state.interview_analysis_results = None
        /\ session_state.candidate_evaluation_results = None
        /\ session_state.ai_detection_results = before.ai_detection_results

\* C2 witness: the JD is replaced while an AI-detection result and the three
\* JD-dependent results are stored.
C2_Witness ==
    /\ AfterFileChangeCheck /\ ~ResumeChanged /\ JdChanged
    /\ before.ai_detection_results # None
    /\ before.jd_analysis_results # None
    /\ before.interview_analysis_results # None
    /\ before.candidate_evaluation_results # None

\* C3: on a run in which only the transcript hash differs, after the
\* file-change check the coverage and evaluation results are None, and the
\* scoring result, the AI-detection result and both extracted texts are what
\* they were before the run.
C3_TranscriptChangeResetsInterviewOnly ==
    (AfterFileChangeCheck /\ ~ResumeChanged /\ ~JdChanged /\ TranscriptChanged) =>
        /\ session_state.interview_analysis_results = None
        /\ session_state.candidate_evaluation_results = None
        /\ session_state.jd_analysis_results = before.jd_analysis_results
        /\ session_state.ai_detection_results = before.ai_detection_results
        /\ session_state.job_description_text = before.job_description_text
        /\ session_state.candidate_resume_text = before.candidate_resume_text

\* C3 witness: the transcript changes while all four results are stored.
C3_Witness ==
    /\ AfterFileChangeCheck /\ ~ResumeChanged /\ ~JdChanged /\ TranscriptChanged
    /\ before.interview_analysis_results # None
    /\ before.candidate_evaluation_results # None
    /\ before.jd_analysis_results # None
    /\ before.ai_detection_results # None

\* C4: in every reachable state an evaluation result is stored only with a
\* coverage result, and a coverage result only with a scoring result.
C4_LaterStageNeedsEarlierStage ==
    /\ session_state.candidate_evaluation_results # None
          => session_state.interview_analysis_results # None
    /\ session_state.interview_analysis_results # None
          => session_state.jd_analysis_results # None

\* C4 witness: a state in which all three results are stored.
C4_Witness ==
    /\ session_state.candidate_evaluation_results # None
    /\ session_state.interview_analysis_results # None
    /\ session_state.jd_analysis_results # None

\* The part of the session state C5 speaks of.
StageState(s) ==
    <<s.jd_analysis_results, s.ai_detection_results, s.interview_analysis_results,
      s.candidate_evaluation_results, s.conversation_history,
      s.job_description_text, s.candidate_resume_text>>

PreconditionSignalled ==
    signal \in {"error: precondition", "warning: precondition"}

\* C5: when a stage button is clicked while its precondition is violated, an
\* error or warning is signalled, no backend request is sent and the stage
\* results, the conversation history and the extracted texts are unchanged.
C5_PreconditionErrorChangesNothing ==
    PreconditionSignalled =>
        /\ request = None
        /\ StageState(session_state) = StageState(before)

\* C6: a failed backend request of a stage leaves the results of the earlier
\* stages as they were before the handler ran.
C6_FailedRequestKeepsEarlierResults ==
    (signal = "error: request") =>
        /\ request.endpoint = "/result/analyze-interview-questions/" =>
             /\ session_state.jd_analysis_results = before.jd_analysis_results
             /\ session_state.ai_detection_results = before.ai_detection_results
        /\ request.endpoint = "/evaluate-candidate-responses/" =>
             /\ session_state.interview_analysis_results =
                    before.interview_analysis_results
             /\ session_state.jd_analysis_results = before.jd_analysis_results
             /\ session_state.ai_detection_results = before.ai_detection_results
        /\ request.endpoint = "/full-analysis/" =>
             session_state.ai_detection_results = before.ai_detection_results
        /\ request.endpoint = "/resume/detect_ai" =>
             /\ session_state.jd_analysis_results = before.jd_analysis_results
             /\ session_state.interview_analysis_results =
                    before.interview_analysis_results
             /\ session_state.candidate_evaluation_results =
                    before.candidate_evaluation_results

\* C6 witness: an evaluation request fails while the scoring, coverage and
\* AI-detection results are stored.
C6_Witness ==
    /\ signal = "error: request"
    /\ request.endpoint = "/evaluate-candidate-responses/"
    /\ session_state.interview_analysis_results # None
    /\ session_state.jd_analysis_results # None
    /\ session_state.ai_detection_results # None

\* A stage request was sent in the tab that has just run.
StageRequestSent == signal \in {"success", "error: request"}

\* C29: a stage button clicked with its preconditions met clears the stored
\* result of its stage and of every later stage before the request is sent
\* (scoring: scoring, coverage and evaluation; coverage: coverage and
\* evaluation; evaluation and AI detection: their own result only), and a
\* failed request leaves the cleared results None.
C29_ClickClearsStageAndDownstream ==
    StageRequestSent =>
        LET failed == signal = "error: request" IN
        /\ request.endpoint = "/full-analysis/" =>
             /\ failed => session_state.jd_analysis_results = None
             /\ session_state.interview_analysis_results = None
             /\ session_state.candidate_evaluation_results = None
             /\ session_state.ai_detection_results = before.ai_detection_results
        /\ request.endpoint = "/result/analyze-interview-questions/" =>
             /\ failed => session_state.interview_analysis_results = None
             /\ session_state.candidate_evaluation_results = None
             /\ session_state.jd_analysis_results = before.jd_analysis_results
             /\ session_state.ai_detection_results = before.ai_detection_results
        /\ request.endpoint = "/evaluate-candidate-responses/" =>
             /\ failed => session_state.candidate_evaluation_results = None
             /\ session_state.interview_analysis_results =
                    before.interview_analysis_results
             /\ session_state.jd_analysis_results = before.jd_analysis_results
             /\ session_state.ai_detection_results = before.ai_detection_results
        /\ request.endpoint = "/resume/detect_ai" =>
             /\ failed => session_state.ai_detection_results = None
             /\ session_state.jd_analysis_results = before.jd_analysis_results
             /\ session_state.interview_analysis_results =
                    before.interview_analysis_results
             /\ session_state.candidate_evaluation_results =
                    before.candidate_evaluation_results

\* C29 witness: the scoring request fails while results of the scoring, the
\* coverage and the evaluation stage were stored.
C29_Witness ==
    /\ signal = "error: request"
    /\ request.endpoint = "/full-analysis/"
    /\ before.jd_analysis_results # None
    /\ before.interview_analysis_results # None
    /\ before.candidate_evaluation_results # None
    /\ session_state.jd_analysis_results = None
    /\ session_state.interview_analysis_results = None
    /\ session_state.candidate_evaluation_results = None

(***************************************************************************)
(* Claims about score_resume_against_jd, checked under SpecScoring.        *)
(***************************************************************************)
ScoringCalled == service_result # None

ScoringReturned == ScoringCalled /\ ~service_result.raised

\* The completion service answered with a string.
AnsweredText == completion # None /\ completion.ok /\ completion.content # None

\* C8: for an answer that follows the scoring grammar, the function returns
\* the integer of the OVERALL_SCORE line as overall_score and maps each of
\* the five criteria labels to the integer of its line.
C8_GrammarScoresExtractedExactly ==
    (ScoringCalled /\ declared # None) =>
        /\ ~service_result.raised
        /\ service_result.value.overall_score = declared.overall
        /\ \A i \in 1..5 :
             /\ <<CriteriaLabels[i]>> \in DOMAIN service_result.value.criteria_scores
             /\ service_result.value.criteria_scores[<<CriteriaLabels[i]>>]
                  = declared.criteria[i]

\* The answer of the spec's example, `OVERALL_SCORE: 87/100`, parsed, with a
\* criteria row of five different scores.
C8_Witness ==
    /\ ScoringReturned
    /\ declared = [overall |-> 87, criteria |-> <<10, 20, 100, 40, 50>>]
    /\ service_result.value.overall_score = 87
    /\ service_result.value.criteria_scores[<<"Education Background">>] = 100

Occurs(lit, t) == \E i \in 1..Len(t) : StartsWith(t, i, lit)

\* C9: whatever string the completion service answers, the function returns
\* a result and does not raise; with no OVERALL_SCORE the overall score is
\* 0, with no `<int>/100` the criteria mapping is empty, with no
\* HARD_REQUIREMENTS_MATCH: the hard requirements mapping is empty, and with
\* no STRENGTHS: the strengths text is the sentinel.
C9_AnyTextParsesWithDefaults ==
    (ScoringCalled /\ AnsweredText) =>
        LET t == completion.content.text
            r == service_result.value
        IN  /\ ~service_result.raised
            /\ ~Occurs(<<"OVERALL_SCORE">>, t) => r.overall_score = 0
            /\ ~Occurs(<<"/", "1", "0", "0">>, t) => DOMAIN r.criteria_scores = {}
            /\ ~Occurs(<<"HARD_REQUIREMENTS_MATCH", ":">>, t)
                 => DOMAIN r.hard_requirements_match = {}
            /\ ~Occurs(<<"STRENGTHS", ":">>, t)
                 => r.strengths_text = StrengthsSentinel

\* The STRENGTHS section of the answer is its last section and holds the
\* single bullet line `- Strong Python background`.
SingleStrengthBullet ==
    /\ AnsweredText
    /\ LET t == completion.content.text
           at == {i \in 1..Len(t) : StartsWith(t, i, <<"STRENGTHS", ":">>)}
       IN  /\ Cardinality(at) = 1
           /\ \E i \in at :
                /\ StartsWith(t, i, <<"STRENGTHS", ":", "\n", "-", " ",
                                      "Strong Python background">>)
                /\ \A k \in (i + 6)..Len(t) : IsSpace(t[k])

EvaluationCalledWithNoQuestions ==
    /\ service_call # None
    /\ service_call.function = "evaluate_candidate_responses_holistically"
    /\ service_call.all_questions_asked = <<>>

\* The evaluation button was used with an interview analysis stored whose
\* covered and interviewer-own question lists are both empty.
EvaluationClickedWithNoQuestions(s) ==
    /\ event = "evaluate_responses_button"
    /\ s.interview_analysis_results # None
    /\ s.interview_analysis_results.covered_generated_questions
         \o s.interview_analysis_results.interviewer_own_questions = <<>>

\* C7: called with an empty question list, the evaluation function returns
\* the zero sentinel (no individual evaluations, overall score 0) and makes
\* no call of the completion service; and the evaluation handler of the UI
\* sends no request when the covered and the interviewer-own questions
\* together are empty.
C7_NoQuestionsNoEvaluationCall ==
    /\ EvaluationCalledWithNoQuestions =>
          /\ service_result = Returned(EvaluationSentinel)
          /\ service_result.value.individual_evaluations = <<>>
          /\ service_result.value.overall_interview_score = 0
          /\ completion_calls = 0
          /\ completion = None
    /\ (pc = "tab5" /\ EvaluationClickedWithNoQuestions(before)) =>
          /\ request = None
          /\ session_state.candidate_evaluation_results = None

\* After a run in which the button was used with no question to evaluate,
\* the function has been called with the empty list.
C7_Witness ==
    /\ pc = "idle"
    /\ EvaluationClickedWithNoQuestions(session_state)
    /\ Truthy(conversation_transcript_file)
    /\ EvaluationCalledWithNoQuestions
    /\ service_result = Returned(EvaluationSentinel)
    /\ completion_calls = 0

(***************************************************************************)
(* Claims about _parse_generated_questions, checked under SpecQuestions.   *)
(***************************************************************************)
QuestionsParsed ==
    /\ service_call # None
    /\ service_call.function = "_parse_generated_questions"

\* C11: the numbered lines `<i>. <q_i>` written from n >= 1 non-empty,
\* trimmed, single-line questions parse to exactly [q_1, ..., q_n], in order;
\* and whatever list the parser returns, for any text, numbering it again as
\* analyze_interview_questions does and parsing that returns the same list.
C11_NumberedListParsesToItsQuestions ==
    QuestionsParsed =>
        /\ declared # None => service_result.value = declared.questions
        /\ _parse_generated_questions(
               ai_questions_formatted_for_prompt(service_result.value))
             = service_result.value

\* "1. A\n2. B\n3. C" has been parsed to ["A", "B", "C"].
C11_Witness ==
    /\ QuestionsParsed
    /\ service_call.question_text
         = <<"1", ".", " ", "A", "\n", "2", ".", " ", "B", "\n",
             "3", ".", " ", "C">>
    /\ service_result.value = <<<<"A">>, <<"B">>, <<"C">>>>

\* C26: if the primary pass finds a numbered item with text, the result is
\* the primary matches, and the text before the first numbered item adds
\* nothing to it; if it finds none, the result is every non-empty line,
\* trimmed and in order.  The result never holds an empty string.
C26_FallbackOnlyWithoutNumberedItems ==
    QuestionsParsed =>
        LET text == service_call.question_text
            result == service_result.value
            lines == Split(text, "\n")
            first == Min({q \in 1..Len(text) : QuestionMatchAt(text, q).matched})
        IN  /\ parsed_matches(text) # <<>> =>
                  /\ result = parsed_matches(text)
                  /\ result = parsed_matches(SubSeq(text, first, Len(text)))
            /\ parsed_matches(text) = <<>> =>
                  result = SelectSeq([i \in 1..Len(lines) |-> Strip(lines[i])],
                                     NonEmpty)
            /\ \A i \in 1..Len(result) : result[i] # <<>>

\* "B\n1.B" has been parsed to ["B"]: the line before the numbered item is
\* not returned.
C26_Witness ==
    /\ QuestionsParsed
    /\ service_call.question_text = <<"B", "\n", "1", ".", "B">>
    /\ service_result.value = <<<<"B">>>>

(***************************************************************************)
(* Claims about analyze_interview_questions, checked under SpecCoverage.   *)
(***************************************************************************)
CoverageReturned ==
    /\ service_call # None
    /\ service_call.function = "analyze_interview_questions"
    /\ ~service_result.raised

\* C12: for a response with the three headers, each followed by zero or more
\* `- ` bullet lines, each returned list is exactly the bullets written under
\* its own header, marker stripped and in order: no bullet of another section
\* is in it, and a section without bullets gives the empty list.
C12_EachSectionHoldsItsOwnBullets ==
    CoverageReturned /\ declared # None =>
        /\ service_result.value.covered_generated_questions = declared.covered
        /\ service_result.value.uncovered_generated_questions = declared.uncovered
        /\ service_result.value.interviewer_own_questions = declared.own

\* C13: when the generated-questions text parses to no question, the
\* returned covered and uncovered lists are empty, whatever the completion
\* text.
C13_NoGeneratedQuestionsNothingCovered ==
    CoverageReturned /\ service_result.value.original_ai_generated_count = 0 =>
        /\ service_result.value.covered_generated_questions = <<>>
        /\ service_result.value.uncovered_generated_questions = <<>>

(***************************************************************************)
(* Claims about the follow-up conversation, checked under Spec.            *)
(***************************************************************************)
\* The script run has ended and its Q&A branch was enabled: tab 5 rendered
\* the chat input.
QaBranchRan == pc = "idle" /\ "chat_input" \in widgets

SystemMessageAssembled(s) ==
    /\ s.conversation_history # <<>>
    /\ s.conversation_history[1].role = "system"

\* C14: at the end of every script run whose Q&A branch is enabled, the
\* system message at conversation_history[0] holds the summary of every
\* stage result stored in the session: the scoring summary, the coverage
\* summary when interview_analysis_results is set, the evaluation summary
\* when candidate_evaluation_results is set.
C14_SystemMessageHoldsEveryStoredResult ==
    QaBranchRan =>
        /\ SystemMessageAssembled(session_state)
        /\ LET content == session_state.conversation_history[1].content
               current == qa_context_summary(session_state,
                                             conversation_transcript_file)
           IN  /\ content.initial_analysis = current.initial_analysis
               /\ content.coverage = current.coverage
               /\ content.evaluations = current.evaluations

\* The step resets the conversation: the file-change check finds a hash that
\* differs from the last one seen, or a scoring click or a coverage click
\* gets past its preconditions and clears the state of its stage.
ResetStep ==
    \/ /\ pc = "idle"
       /\ \/ get_file_hash(shared_resume_file')
                # session_state.last_shared_resume_hash
          \/ get_file_hash(jd_file') # session_state.last_jd_hash
          \/ get_file_hash(conversation_transcript_file')
                # session_state.last_conversation_transcript_hash
    \/ /\ pc = "tab2"
       /\ event = "analyze_jd_resume_button"
       /\ Truthy(jd_file)
       /\ Truthy(shared_resume_file)
    \/ /\ pc = "tab3"
       /\ event = "analyze_interview_button"
       /\ Truthy(conversation_transcript_file)
       /\ Truthy(session_state.jd_analysis_results)

\* C15: once the system message is assembled, every step that is not a reset
\* leaves conversation_history[0] as it is (so it is assembled at most once
\* between two resets): follow-up turns, evaluation, AI detection and plain
\* reruns do not touch it.
C15_SystemMessageFixedUntilReset ==
    [][SystemMessageAssembled(session_state) /\ ~ResetStep =>
          /\ SystemMessageAssembled(session_state')
          /\ session_state'.conversation_history[1]
               = session_state.conversation_history[1]]_vars

\* A run with a successful evaluation has ended, and the system message is
\* the one the run started with.
C15_Witness ==
    /\ pc = "idle"
    /\ event = "evaluate_responses_button"
    /\ session_state.candidate_evaluation_results # None
    /\ SystemMessageAssembled(before)
    /\ SystemMessageAssembled(session_state)
    /\ session_state.conversation_history[1] = before.conversation_history[1]

IsPrefix(a, b) == Len(a) <= Len(b) /\ SubSeq(b, 1, Len(a)) = a

\* C16: between two resets the history only grows: every step that is not
\* a reset leaves the previous history as a prefix of the new one.
C16_HistoryOnlyGrows ==
    [][~ResetStep =>
          IsPrefix(session_state.conversation_history,
                   session_state'.conversation_history)]_vars

\* C16 as amended: every step that is not a reset and starts from an empty
\* history or from one that begins with the system message leaves the
\* previous history as a prefix of the new one.  (The assistant message a
\* successful scoring run leaves alone in the history is replaced when tab 5
\* assembles the system message.)
C16_HistoryOnlyGrowsOnceAssembled ==
    [][/\ ~ResetStep
       /\ \/ session_state.conversation_history = <<>>
          \/ SystemMessageAssembled(session_state)
       => IsPrefix(session_state.conversation_history,
                   session_state'.conversation_history)]_vars

\* A follow-up turn has appended the question and the answer to a history
\* that began with the system message.
C16_Witness ==
    /\ pc = "idle"
    /\ event = "chat_input"
    /\ SystemMessageAssembled(before)
    /\ IsPrefix(before.conversation_history, session_state.conversation_history)
    /\ Len(session_state.conversation_history)
         = Len(before.conversation_history) + 2

\* The last step was a follow-up turn: tab 5 sent the question.
FollowUpTurnDone ==
    /\ pc = "idle"
    /\ request # None
    /\ request.endpoint = "/answer-follow-up-question/"

QaEnabled(s) ==
    TruthyText(s.job_description_text) /\ TruthyText(s.candidate_resume_text)

\* C18: whenever both extracted texts are non-empty, jd_analysis_results is
\* not None, so reading it at the start of the Q&A branch never raises; and a
\* run that reaches tab 5 renders the chat input exactly when both texts are
\* non-empty.
C18_QaEnabledImpliesScoringResult ==
    /\ QaEnabled(session_state) => session_state.jd_analysis_results # None
    /\ signal # "exception"
    /\ pc = "idle" /\ "evaluate_responses_button" \in widgets =>
          ("chat_input" \in widgets <=> QaEnabled(session_state))

\* The Q&A branch ran after a scoring request failed: a scoring result was
\* stored before, the click cleared it together with the JD text.
C18_Witness ==
    /\ pc = "idle"
    /\ event = "analyze_jd_resume_button"
    /\ "evaluate_responses_button" \in widgets
    /\ "chat_input" \notin widgets
    /\ TruthyText(session_state.candidate_resume_text)
    /\ session_state.jd_analysis_results = None

(***************************************************************************)
(* Claims about the scores of the two scoring functions, checked under     *)
(* SpecScores and SpecScoring.                                             *)
(***************************************************************************)
ReturnedBy(function) ==
    /\ service_call # None
    /\ service_call.function = function
    /\ ~service_result.raised

\* C19: every score of a returned result lies in its declared range,
\* whatever the completion text: overall_score and every criteria score of
\* score_resume_against_jd in 0..100, every individual score of
\* evaluate_candidate_responses_holistically in 0..10 and its
\* overall_interview_score in 0..100.
C19_ScoresWithinDeclaredRange ==
    /\ ReturnedBy("score_resume_against_jd") =>
          /\ service_result.value.overall_score \in 0..100
          /\ \A label \in DOMAIN service_result.value.criteria_scores :
                service_result.value.criteria_scores[label] \in 0..100
    /\ ReturnedBy("evaluate_candidate_responses_holistically") =>
          /\ service_result.value.overall_interview_score \in 0..100
          /\ \A k \in 1..Len(service_result.value.individual_evaluations) :
                service_result.value.individual_evaluations[k].score \in 0..10

\* C20: the keys of criteria_scores are among the five criteria labels of
\* the prompt (a line with another label adds no entry), and no key spans
\* more than one line.
C20_CriteriaKeysAreTheFiveLabels ==
    ReturnedBy("score_resume_against_jd") =>
        \A label \in DOMAIN service_result.value.criteria_scores :
            /\ \E i \in 1..5 : label = <<CriteriaLabels[i]>>
            /\ \A k \in 1..Len(label) : label[k] # "\n"


\* A system message, an assistant message, then user and assistant messages
\* in turn, the last one the assistant's.
HistoryAlternates(history) ==
    /\ Len(history) >= 2
    /\ Len(history) % 2 = 0
    /\ history[1].role = "system"
    /\ \A i \in 2..Len(history) :
           history[i].role = IF i % 2 = 0 THEN "assistant" ELSE "user"

\* A follow-up turn appended one user message and one assistant message
\* to the history it found, the system message assembled at its head; the
\* request it sent was that history up to the user's question.
TurnAppendsQuestionAndAnswer ==
    LET history == session_state.conversation_history
        found == with_system_message(before, conversation_transcript_file)
                     .conversation_history
        n == Len(history)
    IN  /\ n = Len(found) + 2
        /\ IsPrefix(found, history)
        /\ history[n - 1].role = "user"
        /\ history[n].role = "assistant"
        /\ request.messages = SubSeq(history, 1, n - 1)
        /\ request.messages[1].role = "system"
        /\ request.messages[n - 1] \in
               { [role |-> "user", content |-> [text |-> q]] : q \in UserQuestions }

EndpointCalled(endpoint) ==
    /\ service_call # None
    /\ "endpoint" \in DOMAIN service_call
    /\ service_call.endpoint = endpoint

\* C21: the evaluate-candidate-responses endpoint answers a payload whose
\* all_questions_asked_json is not valid JSON, or is JSON but not a list of
\* strings, with HTTP 400, having extracted the text of no upload and made
\* no completion call.
C21_BadQuestionPayloadRejectedFirst ==
    /\ EndpointCalled("/evaluate-candidate-responses/")
    /\ service_call.all_questions_asked_json.json # "list of strings"
    => /\ service_result = Raised(400)
       /\ texts_extracted = 0
       /\ completion_calls = 0

\* An upload of the call is of a format its endpoint does not take (for
\* detection: or holds no text), and the call has no other defect.
UnsupportedUpload ==
    LET uploads == service_call.uploads
    IN  \/ /\ EndpointCalled("/full-analysis/")
           /\ service_call.pdf_readable
           /\ \/ FileExtension(uploads[1]) \notin {".txt", ".pdf"}
              \/ FileExtension(uploads[2]) # ".txt"
        \/ /\ EndpointCalled("/result/analyze-interview-questions/")
           /\ \/ FileExtension(uploads[1]) # ".txt"
              \/ FileExtension(uploads[2]) # ".txt"
        \/ /\ EndpointCalled("/evaluate-candidate-responses/")
           /\ service_call.pdf_readable
           /\ service_call.all_questions_asked_json.json = "list of strings"
           /\ \/ FileExtension(uploads[1]) # ".txt"
              \/ FileExtension(uploads[2]) # ".txt"
              \/ FileExtension(uploads[3]) \notin {".txt", ".pdf"}
        \/ /\ EndpointCalled("/resume/detect_ai")
           /\ service_call.pdf_readable
           /\ \/ uploads[1].type \notin {"application/pdf", "text/plain"}
              \/ uploads[1].content = ""

\* C22: on every endpoint an upload of an unsupported format (for AI
\* detection also a resume without text) is answered with HTTP 400, not
\* with the 500 of an upstream failure, and no completion call is made.
C22_UnsupportedUploadIsClientError ==
    UnsupportedUpload =>
        /\ service_result = Raised(400)
        /\ completion_calls = 0

(***************************************************************************)
(* detect_ai_resume.                                                       *)
(***************************************************************************)
DetectionCalled ==
    /\ service_call # None
    /\ "function" \in DOMAIN service_call
    /\ service_call.function = "detect_ai_resume"

DetectionReturned == DetectionCalled /\ ~service_result.raised

DetectionScoreKeys ==
    {"overall_confidence_score", "formatting_consistency_score",
     "language_use_score", "detail_depth_score", "error_detection_score"}

\* C23: for every completion text the classification returned by
\* detect_ai_resume is AI-Generated, Human-Written or Unknown, and each
\* sub-score is an integer in 0..100 or the value "unknown".
C23_DetectionValuesWithinDeclaredSets ==
    DetectionReturned =>
        LET data == service_result.value.data
        IN  /\ data.classification \in
                   {<<"AI-Generated">>, <<"Human-Written">>, <<"Unknown">>}
            /\ \A k \in DetectionScoreKeys :
                   \/ data[k] = StrValue("unknown")
                   \/ \E n \in 0..100 : data[k] = IntValue(n)

\* C27: detect_ai_resume makes one completion call and returns no
\* explanation when include_explanation is false; it makes two calls, the
\* second carrying the values parsed from the first answer, and returns an
\* explanation when it is true.  If a call fails the function raises: it
\* never returns scores without the explanation asked for.  No call is
\* made twice.
C27_OneCallOrTwoAndNoPartialResult ==
    DetectionCalled /\ service_call.resume_text # "" =>
        LET prompts == service_call.prompts
            returned == ~service_result.raised
            include_explanation == service_call.include_explanation
        IN  /\ completion_calls = Len(prompts)
            /\ prompts[1] = initial_prompt(service_call.resume_text)
            /\ ~include_explanation => Len(prompts) = 1
            /\ include_explanation /\ returned => Len(prompts) = 2
            /\ Len(prompts) = 2 =>
                   prompts[2] = explanation_prompt(
                                    response_data(completion.content.text),
                                    service_call.resume_text)
            /\ returned =>
                   (include_explanation <=>
                        "explanation" \in DOMAIN service_result.value.data)
            /\ ~completion.ok => service_result.raised /\ Len(prompts) = 1
            /\ Len(prompts) = 2 /\ ~service_call.second.ok => service_result.raised

C27_Witness ==
    /\ DetectionCalled
    /\ service_call.include_explanation
    /\ completion_calls = 2
    /\ ~service_call.second.ok
    /\ service_result = Raised(500)

(***************************************************************************)
(* Stored results and the uploads.                                         *)
(***************************************************************************)
\* C24: at the end of every script run every stage result that is not None
\* was computed from the files now uploaded: ai_detection_results from the
\* resume, jd_analysis_results from the resume and the JD,
\* interview_analysis_results from the stored jd_analysis_results and the
\* transcript, candidate_evaluation_results from the stored
\* interview_analysis_results and the three files.
C24_StoredResultsComputedFromCurrentFiles ==
    pc = "idle" =>
        LET s == session_state IN
        /\ s.ai_detection_results # None =>
               computed_from.ai_detection_results =
                   [resume_file |-> shared_resume_file]
        /\ s.jd_analysis_results # None =>
               computed_from.jd_analysis_results =
                   [resume_file |-> shared_resume_file, jd_file |-> jd_file]
        /\ s.interview_analysis_results # None =>
               computed_from.interview_analysis_results =
                   [jd_analysis_results |-> s.jd_analysis_results,
                    conversation_transcript_file |-> conversation_transcript_file]
        /\ s.candidate_evaluation_results # None =>
               computed_from.candidate_evaluation_results =
                   [interview_analysis_results |-> s.interview_analysis_results,
                    conversation_transcript_file |-> conversation_transcript_file,
                    jd_file |-> jd_file,
                    resume_file |-> shared_resume_file]

\* All four results are stored, after the resume, then the JD and the
\* transcript were replaced and every stage was run again.
C24_Witness ==
    /\ pc = "idle"
    /\ \A k \in Stages : session_state[k] # None
    /\ shared_resume_file.name = "r2.pdf"
    /\ jd_file.name = "j2.txt"
    /\ conversation_transcript_file.name = "t2.txt"
    /\ computed_from.candidate_evaluation_results.jd_file.name = "j2.txt"

(***************************************************************************)
(* The blocks of an evaluation answer.                                     *)
(***************************************************************************)
BlocksEvaluated ==
    /\ service_call # None
    /\ "blocks" \in DOMAIN declared
    /\ ~service_result.raised

\* The entry of block i as its four lines state it.
BlockEntry(i) ==
    [question |-> BlockField("Question", i),
     response_summary |-> BlockField("Response Summary", i),
     score |-> i,
     rationale |-> BlockField("Rationale", i)]

RECURSIVE EntriesOf(_, _)
EntriesOf(blocks, i) ==
    IF i > Len(blocks) THEN <<>>
    ELSE (IF blocks[i] = "none" THEN <<BlockEntry(i)>> ELSE <<>>)
           \o EntriesOf(blocks, i + 1)

\* C25: for an answer of blocks separated by `---` lines and followed by
\* the overall-performance header, individual_evaluations holds one entry
\* for each block that has its four lines, in block order, with the
\* question, summary, score and rationale of that block; a block that
\* lacks a line adds no entry and changes no other entry.
C25_EachBlockYieldsItsOwnEntry ==
    BlocksEvaluated =>
        service_result.value.individual_evaluations =
            EntriesOf(declared.blocks, 1)
(***************************************************************************)
(* The two eligibility verdicts of the interface on a scoring result of    *)
(* the backend: one call of score_resume_against_jd on an answer that      *)
(* follows the format of the prompt, the result as the interface receives  *)
(* it, and the verdict of the analysis tab and of the follow-up context.   *)
(***************************************************************************)
\* The string a text is sent as.
RECURSIVE AsString(_)
AsString(text) ==
    IF text = <<>> THEN "" ELSE Head(text) \o AsString(Tail(text))

\* main.py:84-96 and api_client.py:46: the hard requirements as the
\* interface reads them from the response.
hard_requirements_received(hard_requirements) ==
    LET keys == {AsString(k) : k \in DOMAIN hard_requirements}
        sent(name) == CHOOSE k \in DOMAIN hard_requirements : AsString(k) = name
    IN  [name \in keys |-> AsString(hard_requirements[sent(name)])]

\* app.py:290-295
hard_req_items ==
    <<"Location Match", "Full-time Availability", "Minimum Experience Met",
      "Other Specific Requirements Met">>

\* app.py:278-317, the verdict of the analysis tab.
is_eligible(analysis_score) ==
    LET hard_requirements == analysis_score.hard_requirements_match
        req_value(req_key) ==
            IF req_key \in DOMAIN hard_requirements
            THEN hard_requirements[req_key] ELSE "N/A"
    IN  /\ DOMAIN hard_requirements # {} =>
              \A i \in 1..Len(hard_req_items) : req_value(hard_req_items[i]) # "No"
        /\ ~(analysis_score.overall_score < 60)

\* The values an answer may give to a hard requirement (service.py:32-35).
HardRequirementValues == {"Yes", "No", "Not Specified in JD", "N/A"}

\* Overall scores on both sides of the threshold of app.py:310.
EligibilityScores == {59, 60, 87}

EligibilityAnswers ==
    {[completion |->
          Completion([text |->
              GrammarText([overall |-> n, criteria |-> DefaultRow], values,
                          <<"Strong Python background">>)]),
      declared |-> [overall_score |-> n, values |-> values]] :
        n \in EligibilityScores,
        values \in [1..4 -> HardRequirementValues]}

\* The scoring result as stored in jd_analysis_results["score"] with the
\* two verdicts the interface derives from it.
Verdicts(result) ==
    LET score == [overall_score |-> result.value.overall_score,
                  hard_requirements_match |->
                      hard_requirements_received(result.value.hard_requirements_match),
                  strengths_text |-> AsString(result.value.strengths_text)]
    IN  [score |-> score,
         analysis_tab |-> IF is_eligible(score) THEN "ELIGIBLE" ELSE "NOT ELIGIBLE",
         qa_context |-> eligibility_summary([jd_analysis_results |-> [score |-> score]])]

ShowEligibility ==
    /\ service_call = None
    /\ service_call' = [function |-> "score_resume_against_jd", shown |-> TRUE]
    /\ \E a \in EligibilityAnswers :
         /\ completion' = a.completion
         /\ declared' = a.declared
         /\ service_result' = Verdicts(score_resume_against_jd(a.completion))
    /\ completion_calls' = completion_calls + 1
    /\ UNCHANGED <<uivars, texts_extracted>>

EligibilityNext == ShowEligibility

SpecEligibility == Init /\ [][EligibilityNext]_vars

(***************************************************************************)
(* Claims about the eligibility verdicts, checked under SpecEligibility.   *)
(***************************************************************************)
EligibilityShown == service_call # None /\ "analysis_tab" \in DOMAIN service_result

SomeHardRequirementIsNo ==
    \E k \in DOMAIN service_result.score.hard_requirements_match :
        service_result.score.hard_requirements_match[k] = "No"

\* C30: whenever an entry of hard_requirements_match of the stored scoring
\* result is "No", the entry of the other specific requirements included,
\* the analysis tab and the follow-up context both report NOT ELIGIBLE; the
\* analysis tab reports ELIGIBLE only if no entry is "No" and overall_score
\* is at least 60.
C30_BothVerdictsRejectOnHardRequirement ==
    EligibilityShown =>
        /\ SomeHardRequirementIsNo =>
              /\ service_result.analysis_tab = "NOT ELIGIBLE"
              /\ service_result.qa_context = "NOT ELIGIBLE"
        /\ service_result.analysis_tab = "ELIGIBLE" =>
              /\ ~SomeHardRequirementIsNo
              /\ service_result.score.overall_score >= 60
====
